---- MODULE Spec2Model ----
(***************************************************************************)
(* State-machine model of the measurement pipeline of insights-ai:        *)
(* executeRuns (src/runner.ts) fanning the work matrix out through a      *)
(* p-limit limiter, runPsi / fetchPsiDataWithRetry (services/psiService)  *)
(* with its dev-mode report cache (services/logService).                  *)
(*                                                                         *)
(* Node's event loop is modelled by its run-to-completion rule: one       *)
(* action is one synchronous stretch of code together with the microtask  *)
(* continuations it triggers; the suspension points are the network call  *)
(* and the backoff timer.                                                  *)
(***************************************************************************)
EXTENDS Integers, Sequences, FiniteSets, TLC

\* ------------------------------------------------------------- bounds
\* Largest work matrix |urls| * |strategies| * runsPerUrl explored.
MaxTotal == 2
\* Largest configured concurrency explored.
MaxConcurrency == 2
\* Most entries of the audits map of a Lighthouse result.
MaxAudits == 2
\* Longest array median is applied to.
MaxValues == 3
\* Largest number of resolved runs the aggregation is applied to.
MaxRuns == 3

\* -------------------------------------------------- program constants
\* psiService.ts: const MAX_API_RETRIES = 3
MAX_API_RETRIES == 3
\* psiService.ts: setTimeout(resolve, attempt * 500)
BackoffBaseMs == 500

\* ------------------------------------------------------------ helpers
\* Strings are sequences of one-character tokens ("https://" is one token).
RECURSIVE IndexOfAny(_, _, _)
\* First position >= from of s holding a token of set cs, or Len(s)+1.
IndexOfAny(s, cs, from) ==
    IF from > Len(s) THEN Len(s) + 1
    ELSE IF s[from] \in cs THEN from
    ELSE IndexOfAny(s, cs, from + 1)

\* The element of a one-element set.  TheOnly({ F(x) : x \in {v} }) is F(v)
\* with v evaluated once (`const x = v; return F(x)`).
TheOnly(S) == CHOOSE r \in S : TRUE

\* ------------------------------------------------ logService: filenames
\* Characters kept by the character class [a-zA-Z0-9-._~=&].
SafeChars == {"a", "b", "c", "p", "q", ".", "-", "_", "~", "=", "&"}

\* String.replace(/[^a-zA-Z0-9-._~=&]/g, '_')
ReplaceUnsafe(s) == [k \in 1..Len(s) |-> IF s[k] \in SafeChars THEN s[k] ELSE "_"]

\* String.replace(/\/$/, '')
StripTrailingSlash(s) ==
    IF Len(s) > 0 /\ s[Len(s)] = "/" THEN SubSeq(s, 1, Len(s) - 1) ELSE s

\* new URL(url): an absolute URL has a scheme and a host; anything else throws.
UrlParses(u) == Len(u) >= 2 /\ u[1] = "https://" /\ u[2] \notin {"/", "?", "#"}

\* The hostname, pathname and search fields of new URL(url).
UrlHostname(u) == SubSeq(u, 2, IndexOfAny(u, {"/", "?", "#"}, 2) - 1)

UrlPathname(u) ==
    LET from == IndexOfAny(u, {"/", "?", "#"}, 2)
        to   == IndexOfAny(u, {"?", "#"}, 2)
    IN  IF from > Len(u) \/ u[from] # "/" THEN <<"/">> ELSE SubSeq(u, from, to - 1)

UrlSearch(u) ==
    LET from == IndexOfAny(u, {"?", "#"}, 2)
        to   == IndexOfAny(u, {"#"}, 2)
    IN  IF from > Len(u) \/ u[from] # "?" \/ to = from + 1 THEN <<>>
        ELSE SubSeq(u, from, to - 1)

sanitizeUrl(url) ==
    IF UrlParses(url)
    THEN ReplaceUnsafe(StripTrailingSlash(
             UrlHostname(url) \o UrlPathname(url) \o UrlSearch(url)))
    ELSE ReplaceUnsafe(url)

getReportFilename(url, strategy) ==
    <<"psi-raw-", strategy, "-">> \o sanitizeUrl(url) \o <<".json">>

\* ------------------------------------------------------ PSI payloads
\* JSON null / undefined of a numeric field.
NULL == 0 - 1

\* A PsiApiResponse as far as runPsi and the top-level check of
\* extractComprehensiveData look at it: is lighthouseResult there, has it an
\* audits map, has it categories.performance, and that category's score
\* (in thousandths, or NULL).
Payload(lh, audits, perf, score) ==
    [lighthouseResult |-> lh, audits |-> audits, performance |-> perf, score |-> score]

EmptyObject == Payload(FALSE, FALSE, FALSE, NULL)

\* The responses the upstream API is taken to answer with: two full reports
\* of different scores, one without its audits map, one empty object.
Payloads ==
    { Payload(TRUE, TRUE, TRUE, 900),
      Payload(TRUE, TRUE, TRUE, 500),
      Payload(TRUE, FALSE, TRUE, 500),
      EmptyObject }

\* Failures of one axios.get: a transient one (a 5xx response) and a
\* permanent one (a 4xx response: invalid key, unsupported URL).
NetErrors == {"HTTP503", "HTTP400"}

\* ------------------------------------------ JSON text of a cache file
NumberText == [s \in {NULL, 500, 900} |->
                 IF s = NULL THEN "null" ELSE IF s = 500 THEN "0.5" ELSE "0.9"]

TextNumber(t) == IF t = "null" THEN NULL ELSE IF t = "0.5" THEN 500 ELSE 900

\* JSON.stringify(data, null, 2), as a sequence of tokens.
JsonStringify(data) ==
    <<"{">>
    \o (IF data.lighthouseResult
        THEN <<"lighthouseResult:", "{">>
             \o (IF data.performance
                 THEN <<"performance:", NumberText[data.score]>> ELSE <<>>)
             \o (IF data.audits THEN <<"audits:">> ELSE <<>>)
             \o <<"}">>
        ELSE <<>>)
    \o <<"}">>

RECURSIVE ParseMembers(_, _, _)
\* The members of the lighthouseResult object, tokens k.. of text, read into acc.
ParseMembers(text, k, acc) ==
    IF k > Len(text) THEN [ok |-> FALSE, value |-> acc, next |-> k]
    ELSE IF text[k] = "}" THEN [ok |-> TRUE, value |-> acc, next |-> k + 1]
    ELSE IF text[k] = "audits:"
         THEN ParseMembers(text, k + 1, [acc EXCEPT !.audits = TRUE])
    ELSE IF text[k] = "performance:" /\ k < Len(text)
            /\ text[k + 1] \in {"null", "0.5", "0.9"}
         THEN ParseMembers(text, k + 2,
                  [acc EXCEPT !.performance = TRUE, !.score = TextNumber(text[k + 1])])
    ELSE [ok |-> FALSE, value |-> acc, next |-> k]

\* JSON.parse(text): ok is FALSE where JSON.parse throws a SyntaxError.
JsonParse(text) ==
    IF Len(text) < 2 \/ text[1] # "{" THEN [ok |-> FALSE, value |-> EmptyObject]
    ELSE IF text[2] = "}"
         THEN [ok |-> Len(text) = 2, value |-> EmptyObject]
    ELSE IF text[2] = "lighthouseResult:" /\ Len(text) >= 4 /\ text[3] = "{"
         THEN LET m == ParseMembers(text, 4, Payload(TRUE, FALSE, FALSE, NULL))
              IN  [ok    |-> m.ok /\ m.next = Len(text) /\ text[Len(text)] = "}",
                   value |-> m.value]
    ELSE [ok |-> FALSE, value |-> EmptyObject]

\* A path under logs/: absent, a readable file with some text, or a path
\* fs cannot read (no permission, a directory): readFileSync throws on it,
\* and so does writeFileSync.
NoFile == [exists |-> FALSE, readable |-> FALSE, text |-> <<>>]
FileWith(text) == [exists |-> TRUE, readable |-> TRUE, text |-> text]
Unreadable == [exists |-> TRUE, readable |-> FALSE, text |-> <<>>]

\* A file cut short by an interrupted write: JSON.parse throws on it.
TruncatedText == <<"{", "lighthouseResult:">>

\* ------------------------------------------------- psiService: runPsi
\* What one runPsi call settles with: a RunResult carrying the score, or the
\* error thrown (cause: the network error an ApiError wraps).
RunResult(score) == [kind |-> "RunResult", score |-> score, cause |-> "none"]
Thrown(kind, cause) == [kind |-> kind, score |-> NULL, cause |-> cause]
Pending == [kind |-> "pending", score |-> NULL, cause |-> "none"]

\* Math.round(x * 100) of a score x given in thousandths.
RoundPercent(milli) == (milli + 5) \div 10

\* extractComprehensiveData, top-level check:
\* !lighthouseResult?.audits || !lighthouseResult?.categories?.performance
extractComprehensiveData(lh) ==
    IF ~lh.audits \/ ~lh.performance
    THEN Thrown("ValidationError", "none")
    ELSE RunResult(RoundPercent(IF lh.score = NULL THEN 0 ELSE lh.score))

\* The tail of runPsi, after data is set: lh = data.lighthouseResult,
\* core = lh.audits (a TypeError when lh is undefined), then the extraction
\* and the RunResult built from it.
buildRunResult(data) ==
    IF ~data.lighthouseResult
    THEN Thrown("TypeError", "none")
    ELSE extractComprehensiveData(data)

\* A cache that is never hit.
readRawReport_NeverFound(file) ==
    [found |-> FALSE, data |-> EmptyObject, warned |-> FALSE]

\* readRawReport(filename): the parsed report or null, and whether the
\* catch block ran (console.error): readFileSync or JSON.parse threw.
readRawReport(file) ==
    IF ~file.exists THEN [found |-> FALSE, data |-> EmptyObject, warned |-> FALSE]
    ELSE IF ~file.readable \/ ~JsonParse(file.text).ok
         THEN [found |-> FALSE, data |-> EmptyObject, warned |-> TRUE]
    ELSE [found |-> TRUE, data |-> JsonParse(file.text).value, warned |-> FALSE]

\* saveRawReport(filename, data): the file afterwards.  writeFails:
\* writeFileSync throws and the file stays as it was.
saveRawReport(file, data, writeFails) ==
    IF writeFails THEN file ELSE FileWith(JsonStringify(data))

\* saveRawReport without its try/catch.
saveRawReportThrows_Uncaught(writeFails) == writeFails

\* Does saveRawReport throw to its caller?  Its catch block logs the error
\* and returns, whatever was thrown.
saveRawReportThrows(writeFails) == FALSE

\* ---------------------------------------------------------------- state
VARIABLES
    cfg,            \* loadConfig(): urls, strategies, runsPerUrl, concurrency
    process,        \* process.argv and process.env.NODE_ENV
    cache,          \* logs/ directory: filename -> file
    jobs,           \* per work item: the state of its limit(...) job
    queue,          \* p-limit: jobs enqueued and not yet started
    activeCount,    \* p-limit: jobs started and not yet settled
    completed,      \* executeRuns: let completed
    progressCalls,  \* the calls onProgress(completed, total) made so far
    batch,          \* the promise executeRuns returned
    fsLog,          \* counts of logService calls and of console.error warnings
    args,           \* a function applied on its own: the argument values it is given
    ret,            \* ... what the call returned or threw
    warned          \* ... the audit ids console.warn was called with

vars == <<cfg, process, cache, jobs, queue, activeCount, completed,
          progressCalls, batch, fsLog, args, ret, warned>>

\* No function is being applied on its own.
NotCalled == [kind |-> "none"]

\* The URL list of urls.yml; the first two differ only in a trailing slash.
UrlList ==
    << <<"https://", "a", ".", "c">>,
       <<"https://", "a", ".", "c", "/">>,
       <<"https://", "b", ".", "c", "/", "p", "?", "q">>,
       <<"a", ".", "c", "/", "p">> >>

StrategyLists == { <<"mobile">>, <<"desktop", "mobile">> }

\* total = cfg.urls.length * cfg.strategies.length * cfg.runsPerUrl
Total == Len(cfg.urls) * Len(cfg.strategies) * cfg.runsPerUrl
Items == 1..Total

\* The n-th job pushed by the three nested loops of executeRuns.
JobUrl(n) == cfg.urls[((n - 1) \div (Len(cfg.strategies) * cfg.runsPerUrl)) + 1]
JobStrategy(n) ==
    cfg.strategies[(((n - 1) \div cfg.runsPerUrl) % Len(cfg.strategies)) + 1]
JobRun(n) == ((n - 1) % cfg.runsPerUrl) + 1
JobFile(n) == getReportFilename(JobUrl(n), JobStrategy(n))

Filenames ==
    { getReportFilename(UrlList[u], s) : u \in 1..Len(UrlList), s \in {"desktop", "mobile"} }

\* A job before p-limit starts it.
QueuedJob ==
    [st       |-> "queued",   \* queued, fetching, backoff, done, failed
     attempt  |-> 0,          \* fetchPsiDataWithRetry: let attempt
     calls    |-> 0,          \* axios.get calls made
     waitMs   |-> 0,          \* delay of the running backoff timer
     lastErr  |-> "none",     \* err of the last catch
     data     |-> EmptyObject,\* runPsi: let data
     source   |-> "none",     \* where data came from: cache or network
     read     |-> "none",     \* readRawReport: none, absent, hit, failed
     seen     |-> NoFile,     \* the cache file when the call started
     saved    |-> "none",     \* saveRawReport: none, written, failed
     result   |-> Pending]    \* what runPsi settled with

\* Command lines the CLI is started with, and the NODE_ENV values.
ProcessEnvs ==
    { [argv |-> <<"node", "dist/cli.js">>, NODE_ENV |-> "production"],
      [argv |-> <<"node", "tsx", "src/cli.ts">>, NODE_ENV |-> "development"] }

\* arg.includes('tsx') || arg.includes('ts-node') || arg.includes('src/cli.ts'),
\* and arg.includes('src/'), on the arguments above.
ArgHasDevIndicator(arg) == arg \in {"tsx", "src/cli.ts"}
ArgInSrc(arg) == arg \in {"src/cli.ts"}

\* Dev mode detected everywhere.
isDevelopmentMode_Always == TRUE

isDevelopmentMode ==
    \/ \E k \in 1..Len(process.argv) : ArgHasDevIndicator(process.argv[k])
    \/ process.NODE_ENV = "development"
    \/ \E k \in 1..Len(process.argv) : ArgInSrc(process.argv[k])

\* ----------------------------------------------------- metrics: median
\* Numbers of an array are held in thousandths; the arrays explored hold
\* multiples of 0.5, so the mean of two of them is exact.
\* (a, b) => a - b
compareNumbers(a, b) == a - b

\* sorted with x put behind the elements that do not compare greater.
InsertSorted(sorted, x) ==
    LET n == Cardinality({ i \in 1..Len(sorted) : compareNumbers(sorted[i], x) <= 0 })
    IN  SubSeq(sorted, 1, n) \o <<x>> \o SubSeq(sorted, n + 1, Len(sorted))

RECURSIVE SortFrom(_, _, _)
SortFrom(values, k, acc) ==
    IF k > Len(values) THEN acc ELSE SortFrom(values, k + 1, InsertSorted(acc, values[k]))

\* The array is used as it comes.
sortedCopy_Unsorted(values) == values

\* [...values].sort((a, b) => a - b)
sortedCopy(values) == SortFrom(values, 1, <<>>)

\* The caller's array after median(values): the sort works on a copy.
ValuesAfterMedian(values) == values

\* median(values) of a non-empty array; sorted[mid] of the code is
\* sorted[mid + 1] here, sequences being indexed from 1.
median(values) ==
    LET sorted == sortedCopy(values)
        mid == Len(sorted) \div 2
    IN  IF Len(sorted) % 2 # 0 THEN sorted[mid + 1]
        ELSE (sorted[mid] + sorted[mid + 1]) \div 2

\* -------------------------------------------------- runner: aggregation
\* A RunResult as the code after Promise.all reads it: score is an integer
\* number of points, the numeric of each metric is held in thousandths, and
\* auditData names the audit payload object extracted for that run.
ResolvedRun(url, strategy, runNumber, score, lcp, fcp, cls, tbt, auditData) ==
    [url |-> url, strategy |-> strategy, runNumber |-> runNumber, score |-> score,
     lcp |-> lcp, fcp |-> fcp, cls |-> cls, tbt |-> tbt, auditData |-> auditData]

\* key = `${res.url}|${res.strategy}`
GroupKey(res) == res.url \o <<"|", res.strategy>>

RECURSIVE GroupFrom(_, _, _)
\* The Map grouped after results n.. of allResults are added to it: its
\* entries <<key, runs>> in insertion order.
GroupFrom(allResults, n, grouped) ==
    IF n > Len(allResults) THEN grouped
    ELSE GroupFrom(allResults, n + 1,
             IF \E k \in 1..Len(grouped) : grouped[k][1] = GroupKey(allResults[n])
             THEN [k \in 1..Len(grouped) |->
                     IF grouped[k][1] = GroupKey(allResults[n])
                     THEN <<grouped[k][1], Append(grouped[k][2], allResults[n])>>
                     ELSE grouped[k]]
             ELSE Append(grouped, <<GroupKey(allResults[n]), <<allResults[n]>> >>))

RECURSIVE SplitFrom(_, _, _, _)
\* s.split(sep), from token k on, part being the piece read so far.
SplitFrom(s, sep, k, part) ==
    IF k > Len(s) THEN <<part>>
    ELSE IF s[k] = sep THEN <<part>> \o SplitFrom(s, sep, k + 1, <<>>)
    ELSE SplitFrom(s, sep, k + 1, Append(part, s[k]))

\* key.split('|')
Split(s, sep) == SplitFrom(s, sep, 1, <<>>)

\* (a, b) => a.score - b.score
compareRuns(a, b) == a.score - b.score

\* sorted with run put behind the runs that do not compare greater.
InsertRun(sorted, run) ==
    LET n == Cardinality({ i \in 1..Len(sorted) : compareRuns(sorted[i], run) <= 0 })
    IN  SubSeq(sorted, 1, n) \o <<run>> \o SubSeq(sorted, n + 1, Len(sorted))

RECURSIVE SortRunsFrom(_, _, _)
SortRunsFrom(runs, k, acc) ==
    IF k > Len(runs) THEN acc ELSE SortRunsFrom(runs, k + 1, InsertRun(acc, runs[k]))

\* [...runs].sort((a, b) => a.score - b.score); Array.prototype.sort is stable.
sortedRuns(runs) == SortRunsFrom(runs, 1, <<>>)

\* The lower of the two central indices.
medianIndex_Lower(runs) == (Len(runs) - 1) \div 2

\* Math.floor(runs.length / 2)
medianIndex(runs) == Len(runs) \div 2

\* sortedRuns[medianIndex], sequences being indexed from 1.
medianRun(runs) == sortedRuns(runs)[medianIndex(runs) + 1]

\* The fraction is cut off.
MathRound_Floor(milli) == milli \div 1000

\* Math.round(x) of a non-negative x given in thousandths: an integer, a
\* fraction of .5 going up.
MathRound(milli) == (milli + 500) \div 1000

\* runs.map((r) => r.score), runs.map((r) => r.lcp.numeric), ..., in
\* thousandths.
SeriesOf(runs, metric) ==
    [i \in 1..Len(runs) |->
       IF metric = "score" THEN 1000 * runs[i].score ELSE runs[i][metric]]

\* The MedianResult pushed for one entry [key, runs] of grouped.  url and
\* strategy are pieces of the key: strings, a strategy being the one-token
\* string of its name.
MedianResult(key, runs) ==
    [url            |-> Split(key, "|")[1],
     strategy       |-> Split(key, "|")[2],
     runs           |-> Len(runs),
     medianScore    |-> MathRound(median(SeriesOf(runs, "score"))),
     medianLcp      |-> median(SeriesOf(runs, "lcp")),
     medianFcp      |-> median(SeriesOf(runs, "fcp")),
     medianCls      |-> median(SeriesOf(runs, "cls")),
     medianTbt      |-> median(SeriesOf(runs, "tbt")),
     individualRuns |-> runs,
     auditData      |-> medianRun(runs).auditData]

\* The medians array executeRuns builds from allResults.
Aggregate(allResults) ==
    TheOnly({ [k \in 1..Len(grouped) |-> MedianResult(grouped[k][1], grouped[k][2])] :
              grouped \in {GroupFrom(allResults, 1, <<>>)} })

\* ----------------------------------------------------- runner: limiter
\* A limiter that never holds a job back.
HasFreeSlot_Unbounded == TRUE

\* p-limit starts a queued job only while activeCount < concurrency.
HasFreeSlot == activeCount < cfg.concurrency

\* A job can be started now; until none can, no I/O event is handled
\* (p-limit dequeues in microtasks, which run before the next event).
CanStart == queue # <<>> /\ HasFreeSlot

\* p-limit's next(): after a job settles, resolved or rejected, its slot is
\* free again; the queue is untouched, whatever the job settled with.
QueueAfterSettle(q, res) == q

\* The results in the order the jobs settled in, i being the last to settle.
allResults_CompletionOrder(i, js) ==
    [k \in 1..Len(js) |->
       LET n == IF k <= Len(progressCalls) THEN progressCalls[k].job ELSE i
       IN  ResolvedRun(JobUrl(n), JobStrategy(n), JobRun(n), js[n].result.score,
                       0, 0, 0, 0, n)]

\* allResults = await Promise.all(jobs), i being the last job to settle: the
\* RunResult of the n-th job pushed is at index n.  The payloads of this
\* specification hold none of the metric audits, so each numeric is the
\* default 0; auditData n is the payload extracted by job n.
allResults(i, js) ==
    [n \in 1..Len(js) |->
       ResolvedRun(JobUrl(n), JobStrategy(n), JobRun(n), js[n].result.score,
                   0, 0, 0, 0, n)]

\* Promise.allSettled in place of Promise.all: failures are waited out and
\* the medians computed from whatever resolved.
BatchAfterSettle_AllSettled(i, res, js) ==
    IF batch.status # "pending" THEN batch
    ELSE IF \A n \in 1..Len(js) : js[n].st \in {"done", "failed"}
         THEN [status |-> "resolved", error |-> batch.error, job |-> 0,
               medians |-> <<[key |-> <<>>, runs |-> 0, individualRuns |-> <<>>]>>]
    ELSE batch

\* Promise.all(jobs) and the code after it: rejected by the first job that
\* rejects, resolved with the medians once every job has resolved.
BatchAfterSettle(i, res, js) ==
    IF batch.status # "pending" THEN batch
    ELSE IF res.kind # "RunResult"
         THEN [status |-> "rejected", error |-> res, job |-> i, medians |-> <<>>]
    ELSE IF \A n \in Items : js[n].st = "done"
         THEN [status |-> "resolved", error |-> Pending, job |-> 0, medians |-> Aggregate(allResults(i, js))]
    ELSE batch

\* onProgress given the count before the increment, which is then lost.
NextCompleted_Stale(c) == c

\* completed += 1, the value then passed to onProgress.
NextCompleted(c) == c + 1

\* The job wrapper after `await runPsi(...)` settles with j.result, p-limit's
\* next() and the reaction of Promise.all: job i ends as record j, with q
\* the queue and active the active count at that moment.
SettleJob(i, j, q, active) ==
    \E settled \in {j} : \E js \in {[jobs EXCEPT ![i] = settled]} :
        /\ jobs' = js
        /\ activeCount' = active - 1
        /\ queue' = QueueAfterSettle(q, settled.result)
        /\ IF settled.result.kind = "RunResult"
           THEN /\ completed' = NextCompleted(completed)
                /\ progressCalls' = Append(progressCalls,
                       [completed |-> NextCompleted(completed), total |-> Total, job |-> i])
           ELSE UNCHANGED <<completed, progressCalls>>
        /\ \E b \in {BatchAfterSettle(i, settled.result, js)} : batch' = b

\* The job record once runPsi has its data: parsed, done or failed.
Parsed(j, data, source) ==
    LET res == buildRunResult(data)
    IN  [j EXCEPT !.data = data, !.source = source, !.result = res, !.lastErr = "none",
                  !.st = IF res.kind = "RunResult" THEN "done" ELSE "failed"]

\* Off by one: a fourth attempt is allowed.
RetryAfter_OneMore(attempt, err) == attempt <= MAX_API_RETRIES

\* fetchPsiDataWithRetry's catch block, attempt already incremented: retry
\* unless the budget is used up.  The error itself is not looked at.
RetryAfter(attempt, err) == attempt < MAX_API_RETRIES

\* The delays of the function's doc comment: 1 s, then 2 s.
backoffDelay_Seconds(attempt) == attempt * 1000

\* setTimeout(resolve, attempt * 500): the delay in ms before the next try.
backoffDelay(attempt) == attempt * BackoffBaseMs

\* ----------------------------------------------------------------- Init
Configs ==
    { [urls |-> SubSeq(UrlList, 1, u), strategies |-> s, runsPerUrl |-> r, concurrency |-> c] :
        u \in 1..Len(UrlList), s \in StrategyLists,
        r \in 1..MaxTotal, c \in 1..MaxConcurrency }

\* What logs/ may hold for a key when the process starts: nothing, a report
\* saved by an earlier run, or a file that does not parse.
InitialFiles ==
    { NoFile,
      Unreadable,
      FileWith(TruncatedText),
      FileWith(JsonStringify(Payload(TRUE, TRUE, TRUE, 900))),
      FileWith(JsonStringify(EmptyObject)) }

Init ==
    /\ cfg \in Configs
    /\ Total <= MaxTotal
    /\ process \in ProcessEnvs
    /\ \E f0 \in InitialFiles :
          /\ (~isDevelopmentMode => f0 \in {NoFile, FileWith(JsonStringify(EmptyObject))})
          /\ cache = [f \in Filenames |-> IF f = JobFile(1) THEN f0 ELSE NoFile]
    /\ jobs = [n \in Items |-> QueuedJob]
    /\ queue = [n \in Items |-> n]
    /\ activeCount = 0
    /\ completed = 0
    /\ progressCalls = <<>>
    /\ batch = [status |-> "pending", error |-> Pending, job |-> 0, medians |-> <<>>]
    /\ fsLog = [filenames |-> 0, reads |-> 0, writes |-> 0,
                readWarnings |-> 0, writeWarnings |-> 0]
    /\ args = <<>>
    /\ ret = NotCalled
    /\ warned = <<>>

\* -------------------------------------------------------------- actions
\* p-limit starts the head of the queue; runPsi runs up to its first await.
\* Production mode: straight to the first axios.get.
StartProduction ==
    /\ CanStart
    /\ ~isDevelopmentMode
    /\ LET i == Head(queue)
       IN  jobs' = [jobs EXCEPT ![i] = [@ EXCEPT !.st = "fetching", !.calls = 1]]
    /\ queue' = Tail(queue)
    /\ activeCount' = activeCount + 1
    /\ UNCHANGED <<args, ret, warned, cfg, process, cache, completed, progressCalls, batch, fsLog>>

\* Dev mode, readRawReport returns null (no file, or reading it threw): the
\* first axios.get is issued.
StartDevMiss ==
    /\ CanStart
    /\ isDevelopmentMode
    /\ LET i == Head(queue)
           file == cache[JobFile(i)]
           r == readRawReport(file)
       IN  /\ ~r.found
           /\ jobs' = [jobs EXCEPT ![i] =
                 [@ EXCEPT !.st = "fetching", !.calls = 1, !.seen = file,
                           !.read = IF r.warned THEN "failed" ELSE "absent"]]
           /\ fsLog' = [fsLog EXCEPT !.filenames = @ + 1, !.reads = @ + 1,
                           !.readWarnings = @ + (IF r.warned THEN 1 ELSE 0)]
    /\ queue' = Tail(queue)
    /\ activeCount' = activeCount + 1
    /\ UNCHANGED <<args, ret, warned, cfg, process, cache, completed, progressCalls, batch>>

\* Dev mode, readRawReport returns a report: no await is reached, runPsi
\* parses the cached data and settles in the same turn.
StartDevHit ==
    /\ CanStart
    /\ isDevelopmentMode
    /\ \E i \in {Head(queue)} : \E file \in {cache[JobFile(i)]} :
       \E r \in {readRawReport(file)} :
           /\ r.found
           /\ SettleJob(i, Parsed([jobs[i] EXCEPT !.seen = file, !.read = "hit"],
                                  r.data, "cache"),
                        Tail(queue), activeCount + 1)
    /\ fsLog' = [fsLog EXCEPT !.filenames = @ + 1, !.reads = @ + 1]
    /\ UNCHANGED <<args, ret, warned, cfg, process, cache>>

\* An axios.get of job i rejects with err: the catch block of
\* fetchPsiDataWithRetry either starts the backoff timer or rethrows, and
\* runPsi then wraps the error in an ApiError.
AttemptFails(i, err) ==
    /\ ~CanStart
    /\ jobs[i].st = "fetching"
    /\ LET attempt == jobs[i].attempt + 1
           j == [jobs[i] EXCEPT !.attempt = attempt, !.lastErr = err]
       IN  IF RetryAfter(attempt, err)
           THEN /\ jobs' = [jobs EXCEPT ![i] =
                      [j EXCEPT !.st = "backoff", !.waitMs = backoffDelay(attempt)]]
                /\ UNCHANGED <<queue, activeCount, completed, progressCalls, batch>>
           ELSE SettleJob(i, [j EXCEPT !.st = "failed",
                                       !.result = Thrown("ApiError", err)],
                          queue, activeCount)
    /\ UNCHANGED <<args, ret, warned, cfg, process, cache, fsLog>>

\* The backoff timer of job i fires: the loop issues the next axios.get.
BackoffElapsed(i) ==
    /\ ~CanStart
    /\ jobs[i].st = "backoff"
    /\ jobs' = [jobs EXCEPT ![i] =
          [@ EXCEPT !.st = "fetching", !.calls = @ + 1, !.waitMs = 0]]
    /\ UNCHANGED <<args, ret, warned, cfg, process, cache, queue, activeCount, completed,
                   progressCalls, batch, fsLog>>

\* An axios.get of job i resolves with payload data: in dev mode the report
\* is saved (writeFails: writeFileSync throws), then runPsi parses data and
\* settles.
AttemptSucceeds(i, data, writeFails) ==
    /\ ~CanStart
    /\ jobs[i].st = "fetching"
    /\ IF isDevelopmentMode
       THEN /\ (cache[JobFile(i)] = Unreadable => writeFails)
            /\ cache' = [cache EXCEPT ![JobFile(i)] = saveRawReport(@, data, writeFails)]
            /\ fsLog' = [fsLog EXCEPT !.writes = @ + 1,
                            !.writeWarnings = @ + (IF writeFails THEN 1 ELSE 0)]
            /\ LET j == [jobs[i] EXCEPT
                            !.saved = IF writeFails THEN "failed" ELSE "written"]
               IN  IF saveRawReportThrows(writeFails)
                   THEN \* the throw lands in runPsi's catch around the fetch
                        SettleJob(i, [j EXCEPT !.st = "failed", !.data = data,
                                               !.source = "network",
                                               !.result = Thrown("ApiError", "fs")],
                                  queue, activeCount)
                   ELSE SettleJob(i, Parsed(j, data, "network"), queue, activeCount)
       ELSE /\ ~writeFails
            /\ UNCHANGED <<cache, fsLog>>
            /\ SettleJob(i, Parsed(jobs[i], data, "network"), queue, activeCount)
    /\ UNCHANGED <<args, ret, warned, cfg, process>>

Next ==
    \/ StartProduction
    \/ StartDevMiss
    \/ StartDevHit
    \/ \E i \in Items, err \in NetErrors : AttemptFails(i, err)
    \/ \E i \in Items : BackoffElapsed(i)
    \/ \E i \in Items, data \in Payloads, writeFails \in BOOLEAN :
          AttemptSucceeds(i, data, writeFails)

Spec == Init /\ [][Next]_vars

\* The event loop keeps turning: a job p-limit can start is started (its
\* dequeue is a microtask), every axios.get settles and every backoff timer
\* fires.  n ranges over the largest work matrix; a job is one of Items.
NetworkSettles(n) ==
    /\ n \in Items
    /\ \/ \E err \in NetErrors : AttemptFails(n, err)
       \/ \E data \in Payloads, writeFails \in BOOLEAN : AttemptSucceeds(n, data, writeFails)

Fairness ==
    /\ WF_vars(StartProduction \/ StartDevMiss \/ StartDevHit)
    /\ \A n \in 1..MaxTotal : WF_vars(NetworkSettles(n)) /\ WF_vars(n \in Items /\ BackoffElapsed(n))

SpecLive == Spec /\ Fairness

\* ------------------------------------------- functions applied on their own
\* The runner before executeRuns is called: while a function of the pipeline
\* is applied on its own, nothing of the batch moves.
runnerVars == <<cfg, process, cache, jobs, queue, activeCount, completed,
                progressCalls, batch, fsLog>>

RunnerAtRest ==
    /\ cfg = [urls |-> SubSeq(UrlList, 1, 1), strategies |-> <<"mobile">>,
              runsPerUrl |-> 1, concurrency |-> 1]
    /\ process = [argv |-> <<"node", "dist/cli.js">>, NODE_ENV |-> "production"]
    /\ cache = [f \in Filenames |-> NoFile]
    /\ jobs = [n \in Items |-> QueuedJob]
    /\ queue = [n \in Items |-> n]
    /\ activeCount = 0
    /\ completed = 0
    /\ progressCalls = <<>>
    /\ batch = [status |-> "pending", error |-> Pending, job |-> 0, medians |-> <<>>]
    /\ fsLog = [filenames |-> 0, reads |-> 0, writes |-> 0,
                readWarnings |-> 0, writeWarnings |-> 0]

\* What a call ended with.
Returned(value) == [kind |-> "returned", value |-> value]
Threw(error) == [kind |-> "thrown", error |-> error]

\* --------------------------------------------- logService: the cache key
\* URLs a urls.yml may list: those of UrlList and some that differ from them
\* in one separator, in a trailing "?" or in the scheme being left out.
KeyUrls ==
    { UrlList[k] : k \in 1..Len(UrlList) }
    \cup { <<"https://", "b", ".", "c", "/", "p", "/", "q">>,
           <<"https://", "b", ".", "c", "/", "p", "_", "q">>,
           <<"https://", "a", ".", "c", "/", "p">>,
           <<"https://", "a", ".", "c", "/", "p", "?">> }

\* PSI_STRATEGIES: the two strategies runPsi accepts.
KeyStrategies == {"desktop", "mobile"}

KeyPairs == { [url |-> u, strategy |-> s] : u \in KeyUrls, s \in KeyStrategies }

\* Two (url, strategy) pairs of one work matrix.
InitFilename ==
    /\ RunnerAtRest
    /\ args \in { <<a, b>> : a \in KeyPairs, b \in KeyPairs }
    /\ ret = NotCalled
    /\ warned = <<>>

\* runPsi computes the cache key of each pair.
GetReportFilenames ==
    /\ ret = NotCalled
    /\ ret' = Returned(<<getReportFilename(args[1].url, args[1].strategy),
                         getReportFilename(args[2].url, args[2].strategy)>>)
    /\ UNCHANGED <<args, warned>>
    /\ UNCHANGED runnerVars

NextFilename == GetReportFilenames

SpecFilename == InitFilename /\ [][NextFilename]_vars

\* ------------------------------------------------- JavaScript values
\* A value read from a PSI response, or built from one: an object is the
\* sequence of its <<key, value>> entries in insertion order, an array the
\* sequence of its elements, a finite number is held in thousandths.
Undefined == [t |-> "undefined"]
Null == [t |-> "null"]
Num(n) == [t |-> "number", k |-> "finite", n |-> n]
Infinity == [t |-> "number", k |-> "Infinity", n |-> 0]
NaN == [t |-> "number", k |-> "NaN", n |-> 0]
Str(s) == [t |-> "string", s |-> s]
Obj(e) == [t |-> "object", e |-> e]
Arr(a) == [t |-> "array", a |-> a]
\* What evaluating `x.k` leaves when x is null or undefined: a TypeError.
TypeError == [t |-> "TypeError"]

\* typeof v
TypeOf(v) == IF v.t \in {"null", "array"} THEN "object" ELSE v.t

\* v == null (v is null or undefined): what ?? and ?. test.
Nullish(v) == v.t \in {"undefined", "null"}

\* !v
Falsy(v) ==
    \/ Nullish(v)
    \/ v.t = "number" /\ (v.k = "NaN" \/ (v.k = "finite" /\ v.n = 0))
    \/ v.t = "string" /\ v.s = ""

\* typeof v === 'object' && v !== null
IsObject(v) == v.t \in {"object", "array"}

\* Has object v an own property k?
HasKey(v, k) == v.t = "object" /\ \E i \in 1..Len(v.e) : v.e[i][1] = k

\* v.k (v[k]): a TypeError on null and undefined, undefined when v has no
\* such property.
Get(v, k) ==
    TheOnly({ IF x.t = "TypeError" \/ Nullish(x) THEN TypeError
              ELSE IF HasKey(x, k) THEN x.e[CHOOSE i \in 1..Len(x.e) : x.e[i][1] = k][2]
              ELSE Undefined : x \in {v} })

\* v?.k
OptGet(v, k) == IF Nullish(v) THEN Undefined ELSE Get(v, k)

\* v ?? d
Coalesce(v, d) == IF Nullish(v) THEN d ELSE v

\* Object.entries(v) of an object or an array (keys "0", "1", ...).
Entries(v) ==
    IF v.t = "object" THEN v.e
    ELSE IF v.t = "array" THEN [i \in 1..Len(v.a) |-> <<ToString(i - 1), v.a[i]>>]
    ELSE <<>>

\* The number v is converted to by an arithmetic or relational operator.  Of
\* the strings only "" is numeric here: every other one used gives NaN.
ToNumber(v) ==
    IF v.t = "number" THEN v
    ELSE IF v.t = "null" \/ (v.t = "string" /\ v.s = "") THEN Num(0)
    ELSE IF v.t = "array" /\ v.a = <<>> THEN Num(0)
    ELSE NaN

\* v < bound, bound a finite number in thousandths.
LessThan(v, bound) ==
    LET x == ToNumber(v)
    IN  x.k = "finite" /\ x.n < bound

\* Math.round(v * 100), the product held in units again: score 0.85 is 85.
RoundTimes100(v) ==
    LET x == ToNumber(v)
    IN  IF x.k = "finite" THEN Num(1000 * RoundPercent(x.n)) ELSE x

RECURSIVE Raises(_)
\* Did building v evaluate a property of null or undefined?
Raises(v) ==
    \E x \in {v} :
        \/ x.t = "TypeError"
        \/ x.t = "object" /\ \E i \in 1..Len(x.e) : Raises(x.e[i][2])
        \/ x.t = "array" /\ \E i \in 1..Len(x.a) : Raises(x.a[i])

\* `typeof v === ty ? v : d`
IfTypeOf(v, ty, d) == IF TypeOf(v) = ty THEN v ELSE d

\* ----------------------------------------- auditExtractor: one audit
ValidModes ==
    {"numeric", "binary", "manual", "informative", "notApplicable", "error",
     "metricSavings"}

parseScoreDisplayMode(scoreDisplayMode) ==
    IF scoreDisplayMode.t = "string" /\ scoreDisplayMode.s \in ValidModes
    THEN scoreDisplayMode ELSE Str("binary")

parseMetricSavings(savings) ==
    IF Falsy(savings) \/ TypeOf(savings) # "object" THEN Undefined
    ELSE LET result == SelectSeq(Entries(savings), LAMBDA e : TypeOf(e[2]) = "number")
         IN  IF Len(result) > 0 THEN Obj(result) ELSE Undefined

parseDetailsType(type) ==
    IF type.t = "string"
       /\ type.s \in {"table", "list", "opportunity", "debugdata", "treemap-data"}
    THEN type ELSE Str("table")

parseValueType(valueType) ==
    IF valueType.t = "string" /\ valueType.s \in {"text", "bytes", "ms", "url", "node"}
    THEN valueType ELSE Str("text")

\* One element of headings.map(...): null for what the filter then removes.
parseHeading(heading) ==
    IF Falsy(heading) \/ TypeOf(heading) # "object" THEN Null
    ELSE Obj(<< <<"key", IfTypeOf(Get(heading, "key"), "string", Str(""))>>,
                <<"label", IfTypeOf(Get(heading, "label"), "string", Str(""))>>,
                <<"valueType", parseValueType(Get(heading, "valueType"))>> >>)

parseHeadings(headings) ==
    IF headings.t # "array" THEN Undefined
    ELSE Arr(SelectSeq([i \in 1..Len(headings.a) |-> parseHeading(headings.a[i])], LAMBDA h : h # Null))

parseBoundingRect(rect) ==
    IF Falsy(rect) \/ TypeOf(rect) # "object" THEN Undefined
    ELSE IF \E side \in {"top", "bottom", "left", "right", "width", "height"} :
                TypeOf(Get(rect, side)) # "number"
         THEN Undefined
    ELSE Obj(<< <<"top", Get(rect, "top")>>, <<"bottom", Get(rect, "bottom")>>,
                <<"left", Get(rect, "left")>>, <<"right", Get(rect, "right")>>,
                <<"width", Get(rect, "width")>>, <<"height", Get(rect, "height")>> >>)

parseDOMElement(node) ==
    IF Falsy(node) \/ TypeOf(node) # "object" THEN Undefined
    ELSE IF Get(node, "type") # Str("node") THEN Undefined
    ELSE Obj(<< <<"type", Str("node")>>,
                <<"path", IfTypeOf(Get(node, "path"), "string", Str(""))>>,
                <<"selector", IfTypeOf(Get(node, "selector"), "string", Str(""))>>,
                <<"snippet", IfTypeOf(Get(node, "snippet"), "string", Str(""))>>,
                <<"nodeLabel", IfTypeOf(Get(node, "nodeLabel"), "string", Str(""))>>,
                <<"boundingRect", parseBoundingRect(Get(node, "boundingRect"))>>,
                <<"lhId", IfTypeOf(Get(node, "lhId"), "string", Undefined)>> >>)

parseSource(source) ==
    IF Falsy(source) \/ TypeOf(source) # "object" THEN Undefined
    ELSE Obj(<< <<"type", IfTypeOf(Get(source, "type"), "string", Str(""))>>,
                <<"value", IfTypeOf(Get(source, "value"), "string", Str(""))>> >>)

parseAuditItem(item) ==
    IF Falsy(item) \/ TypeOf(item) # "object" THEN Obj(<<>>)
    ELSE Obj(<< <<"url", IfTypeOf(Get(item, "url"), "string", Undefined)>>,
                <<"wastedBytes", IfTypeOf(Get(item, "wastedBytes"), "number", Undefined)>>,
                <<"wastedMs", IfTypeOf(Get(item, "wastedMs"), "number", Undefined)>>,
                <<"totalBytes", IfTypeOf(Get(item, "totalBytes"), "number", Undefined)>>,
                <<"node", parseDOMElement(Get(item, "node"))>>,
                <<"source", parseSource(Get(item, "source"))>>,
                <<"resourceSize", IfTypeOf(Get(item, "resourceSize"), "number", Undefined)>>,
                <<"transferSize", IfTypeOf(Get(item, "transferSize"), "number", Undefined)>>,
                <<"score", IfTypeOf(Get(item, "score"), "number", Undefined)>>,
                <<"label", IfTypeOf(Get(item, "label"), "string", Undefined)>>,
                <<"groupLabel", IfTypeOf(Get(item, "groupLabel"), "string", Undefined)>> >>)

\* One element of items.map(...): the try/catch turns a throw of
\* parseAuditItem into null, which the filter then removes.
parseAuditItemOrNull(item) ==
    TheOnly({ IF Raises(parsed) THEN Null ELSE parsed : parsed \in {parseAuditItem(item)} })

parseAuditItems(items) ==
    IF items.t # "array" THEN Arr(<<>>)
    ELSE Arr(SelectSeq([i \in 1..Len(items.a) |-> parseAuditItemOrNull(items.a[i])], LAMBDA it : it # Null))

parseSummary(summary) ==
    IF Falsy(summary) \/ TypeOf(summary) # "object" THEN Undefined
    ELSE Obj(<< <<"wastedBytes", IfTypeOf(Get(summary, "wastedBytes"), "number", Undefined)>>,
                <<"wastedMs", IfTypeOf(Get(summary, "wastedMs"), "number", Undefined)>> >>)

parseAuditDetails(details) ==
    IF Falsy(details) \/ TypeOf(details) # "object" THEN Undefined
    ELSE Obj(<< <<"type", parseDetailsType(Get(details, "type"))>>,
                <<"headings", parseHeadings(Get(details, "headings"))>>,
                <<"items", parseAuditItems(Get(details, "items"))>>,
                <<"overallSavingsMs",
                  IfTypeOf(Get(details, "overallSavingsMs"), "number", Undefined)>>,
                <<"overallSavingsBytes",
                  IfTypeOf(Get(details, "overallSavingsBytes"), "number", Undefined)>>,
                <<"summary", parseSummary(Get(details, "summary"))>> >>)

isValidAuditObject(obj) == TypeOf(obj) = "object" /\ obj # Null

\* The PsiAudit parseAudit builds from a valid audit object.
PsiAudit(id, rawAudit) ==
    Obj(<< <<"id", Str(id)>>,
           <<"title", Coalesce(Get(rawAudit, "title"), Str("Audit " \o id))>>,
           <<"description", Coalesce(Get(rawAudit, "description"), Str(""))>>,
           <<"score", Coalesce(Get(rawAudit, "score"), Null)>>,
           <<"scoreDisplayMode", parseScoreDisplayMode(Get(rawAudit, "scoreDisplayMode"))>>,
           <<"displayValue", Get(rawAudit, "displayValue")>>,
           <<"numericValue", Get(rawAudit, "numericValue")>>,
           <<"numericUnit", Get(rawAudit, "numericUnit")>>,
           <<"metricSavings", parseMetricSavings(Get(rawAudit, "metricSavings"))>>,
           <<"details", parseAuditDetails(Get(rawAudit, "details"))>>,
           <<"errorMessage", Get(rawAudit, "errorMessage")>>,
           <<"warnings", Get(rawAudit, "warnings")>> >>)

parseAudit(id, rawAudit) ==
    IF ~isValidAuditObject(rawAudit) THEN Threw("ValidationError")
    ELSE TheOnly({ IF Raises(audit) THEN Threw("TypeError") ELSE Returned(audit) :
                     audit \in {PsiAudit(id, rawAudit)} })

\* ------------------------------------ auditExtractor: categorizeAudits
BucketNames == {"opportunities", "diagnostics", "passedAudits"}

\* A chain that tests the score before the informative mode.
BucketOf_ScoreFirst(audit) ==
    LET score == Get(audit, "score")
        mode == Get(audit, "scoreDisplayMode")
    IN  IF mode = Str("metricSavings") /\ score # Null /\ LessThan(score, 1000)
        THEN "opportunities"
        ELSE IF score = Num(1000) \/ score = Null THEN "passedAudits"
        ELSE "diagnostics"

\* A chain in which an audit of mode metricSavings is never a passed one.
BucketOf_SavingsNeverPassed(audit) ==
    LET score == Get(audit, "score")
        mode == Get(audit, "scoreDisplayMode")
    IN  IF mode = Str("metricSavings")
        THEN IF score # Null /\ LessThan(score, 1000) THEN "opportunities"
             ELSE "diagnostics"
        ELSE IF mode = Str("informative") THEN "diagnostics"
        ELSE IF score = Num(1000) \/ score = Null THEN "passedAudits"
        ELSE "diagnostics"

\* The if / else-if chain of categorizeAudits: the array audit is pushed to.
BucketOf(audit) ==
    LET score == Get(audit, "score")
        mode == Get(audit, "scoreDisplayMode")
    IN  IF mode = Str("metricSavings") /\ score # Null /\ LessThan(score, 1000)
        THEN "opportunities"
        ELSE IF mode = Str("informative") THEN "diagnostics"
        ELSE IF score = Num(1000) \/ score = Null THEN "passedAudits"
        ELSE "diagnostics"

NoBuckets ==
    [opportunities |-> <<>>, diagnostics |-> <<>>, passedAudits |-> <<>>,
     warned |-> <<>>, thrown |-> "none"]

\* A catch block that logs nothing.
Caught_Silent(acc, id, error) == acc

\* No try/catch around the loop body: the error leaves the loop.
Caught_Rethrown(acc, id, error) == [acc EXCEPT !.thrown = error]

\* catch (error) { console.warn(`Warning: Failed to parse audit ${id}:`, error) }
Caught(acc, id, error) == [acc EXCEPT !.warned = Append(@, id)]

RECURSIVE CategorizeFrom(_, _, _)
\* The for loop over Object.entries(audits), from entry k on; acc holds the
\* three arrays, the ids console.warn was called with and the error that
\* left the loop, if one did.
CategorizeFrom(entries, k, acc) ==
    IF k > Len(entries) \/ acc.thrown # "none" THEN acc
    ELSE TheOnly({ CategorizeFrom(entries, k + 1,
                     IF r.kind = "returned"
                     THEN [acc EXCEPT ![BucketOf(r.value)] = Append(@, r.value)]
                     ELSE Caught(acc, entries[k][1], r.error)) :
                   r \in {parseAudit(entries[k][1], entries[k][2])} })

categorizeAudits(audits) == CategorizeFrom(Entries(audits), 1, NoBuckets)

\* ------------------------------ auditExtractor: metrics and categories
\* const audit = audits[auditId]; return audit?.numericValue ?? 0
getMetricValue(audits, auditId) ==
    Coalesce(OptGet(Get(audits, auditId), "numericValue"), Num(0))

extractCoreMetrics(audits) ==
    Obj(<< <<"lcp", getMetricValue(audits, "largest-contentful-paint")>>,
           <<"fcp", getMetricValue(audits, "first-contentful-paint")>>,
           <<"cls", getMetricValue(audits, "cumulative-layout-shift")>>,
           <<"tbt", getMetricValue(audits, "total-blocking-time")>>,
           <<"si", getMetricValue(audits, "speed-index")>>,
           <<"tti", getMetricValue(audits, "interactive")>> >>)

getOptionalCategoryScore(category) ==
    IF Falsy(category) \/ Get(category, "score") = Null THEN Undefined
    ELSE RoundTimes100(Get(category, "score"))

\* A check that also wants the performance category to carry a score.
FailsTopLevelCheck_ScoreRequired(lighthouseResult) ==
    \/ Falsy(OptGet(lighthouseResult, "audits"))
    \/ Nullish(OptGet(OptGet(OptGet(lighthouseResult, "categories"), "performance"),
                      "score"))

\* The top-level check of extractComprehensiveData:
\* !lighthouseResult?.audits || !lighthouseResult?.categories?.performance
FailsTopLevelCheck(lighthouseResult) ==
    \/ Falsy(OptGet(lighthouseResult, "audits"))
    \/ Falsy(OptGet(OptGet(lighthouseResult, "categories"), "performance"))

\* The ComprehensivePsiData built once the top-level check has passed, with
\* buckets what categorizeAudits(audits) returned.
ComprehensivePsiData(lighthouseResult, url, strategy, buckets) ==
    LET audits == Get(lighthouseResult, "audits")
        categories == Get(lighthouseResult, "categories")
        performanceCategory == Get(categories, "performance")
    IN  Obj(<< <<"url", Str(url)>>,
               <<"strategy", Str(strategy)>>,
               <<"performanceScore",
                 RoundTimes100(Coalesce(Get(performanceCategory, "score"), Num(0)))>>,
               <<"metrics", extractCoreMetrics(audits)>>,
               <<"opportunities", Arr(buckets.opportunities)>>,
               <<"diagnostics", Arr(buckets.diagnostics)>>,
               <<"passedAudits", Arr(buckets.passedAudits)>>,
               <<"accessibilityScore",
                 getOptionalCategoryScore(Get(categories, "accessibility"))>>,
               <<"bestPracticesScore",
                 getOptionalCategoryScore(Get(categories, "best-practices"))>>,
               <<"seoScore", getOptionalCategoryScore(Get(categories, "seo"))>>,
               <<"lighthouseVersion", Get(lighthouseResult, "lighthouseVersion")>>,
               <<"fetchTime", Get(lighthouseResult, "fetchTime")>>,
               <<"environment", Get(lighthouseResult, "environment")>> >>)

\* auditExtractor.extractComprehensiveData(lighthouseResult, url, strategy)
\* over whole Lighthouse results: what it returns or throws, and the audit
\* ids it warned about.  (extractComprehensiveData above is its outcome as
\* far as the batch depends on it.)
auditExtractor_extractComprehensiveData(lighthouseResult, url, strategy) ==
    IF FailsTopLevelCheck(lighthouseResult)
    THEN [ret |-> Threw("ValidationError"), warned |-> <<>>]
    ELSE IF Raises(extractCoreMetrics(Get(lighthouseResult, "audits")))
    THEN [ret |-> Threw("TypeError"), warned |-> <<>>]
    ELSE TheOnly({
           IF buckets.thrown # "none"
           THEN [ret |-> Threw(buckets.thrown), warned |-> buckets.warned]
           ELSE TheOnly({ IF Raises(data)
                          THEN [ret |-> Threw("TypeError"), warned |-> buckets.warned]
                          ELSE [ret |-> Returned(data), warned |-> buckets.warned] :
                          data \in {ComprehensivePsiData(lighthouseResult, url, strategy,
                                                         buckets)} }) :
           buckets \in {categorizeAudits(Get(lighthouseResult, "audits"))} })

\* ------------------------------------------- psiService: a RunResult
\* An extractor that falls back on both fields as soon as one is missing.
extractMetric_Coupled(audits, id) ==
    IF Nullish(OptGet(Get(audits, id), "displayValue"))
       \/ Nullish(OptGet(Get(audits, id), "numericValue"))
    THEN Obj(<< <<"display", Str("n/a")>>, <<"numeric", Num(0)>> >>)
    ELSE Obj(<< <<"display", Get(Get(audits, id), "displayValue")>>,
                <<"numeric", Get(Get(audits, id), "numericValue")>> >>)

extractMetric(audits, id) ==
    Obj(<< <<"display", Coalesce(OptGet(Get(audits, id), "displayValue"), Str("n/a"))>>,
           <<"numeric", Coalesce(OptGet(Get(audits, id), "numericValue"), Num(0))>> >>)

\* runPsi from `const lh = data.lighthouseResult` to its return, over whole
\* responses.  (buildRunResult above is its outcome as far as the batch
\* depends on it.)
\* The RunResult runPsi returns, with auditData what extractComprehensiveData
\* returned.
RunResultOf(lh, url, strategy, runNumber, auditData) ==
    LET core == Get(lh, "audits")
    IN  Obj(<< <<"url", Str(url)>>,
               <<"strategy", Str(strategy)>>,
               <<"runNumber", Num(1000 * runNumber)>>,
               <<"score",
                 RoundTimes100(Coalesce(
                     Get(Get(Get(lh, "categories"), "performance"), "score"), Num(0)))>>,
               <<"lcp", extractMetric(core, "largest-contentful-paint")>>,
               <<"fcp", extractMetric(core, "first-contentful-paint")>>,
               <<"cls", extractMetric(core, "cumulative-layout-shift")>>,
               <<"tbt", extractMetric(core, "total-blocking-time")>>,
               <<"auditData", auditData>> >>)

runPsi_result(data, url, strategy, runNumber) ==
    TheOnly({
      IF Raises(Get(lh, "audits")) THEN [ret |-> Threw("TypeError"), warned |-> <<>>]
      ELSE TheOnly({
             IF extracted.ret.kind = "thrown" THEN extracted
             ELSE TheOnly({ IF Raises(result)
                            THEN [ret |-> Threw("TypeError"), warned |-> extracted.warned]
                            ELSE [ret |-> Returned(result), warned |-> extracted.warned] :
                            result \in {RunResultOf(lh, url, strategy, runNumber,
                                                    extracted.ret.value)} }) :
             extracted \in {auditExtractor_extractComprehensiveData(lh, url, strategy)} }) :
      lh \in {Get(data, "lighthouseResult")} })

\* ------------------------------------------------ Lighthouse results
\* The keys of the audits map, in the order of the response.
AuditIds ==
    <<"largest-contentful-paint", "cumulative-layout-shift", "unused-css-rules",
      "first-contentful-paint">>

\* A details object whose every part is off: a numeric type, headings and
\* items holding null, a string and wrongly typed fields, a node whose
\* rectangle lacks sides, a source and a summary that are not objects.
MalformedDetails ==
    Obj(<< <<"type", Num(5000)>>,
           <<"headings", Arr(<<Null, Obj(<< <<"key", Num(1000)>>,
                                           <<"valueType", Str("bogus")>> >>)>>)>>,
           <<"items", Arr(<<Null, Str("row"),
                            Obj(<< <<"url", Num(1000)>>,
                                   <<"node", Obj(<< <<"type", Str("node")>>,
                                                   <<"path", Null>>,
                                                   <<"boundingRect",
                                                     Obj(<< <<"top", Num(1000)>>,
                                                            <<"left", Str("0")>> >>)>> >>)>>,
                                   <<"source", Str("inline")>> >>),
                            Obj(<< <<"node", Null>>, <<"source", Obj(<< <<"type", Null>> >>)>> >>)
                          >>)>>,
           <<"overallSavingsMs", Str("120")>>,
           <<"summary", Num(1000)>> >>)

\* Values of one entry of the audits map.
RawAudits ==
    { Null,
      Str("oops"),
      Obj(<<>>),
      Arr(<<>>),
      Obj(<< <<"score", Num(500)>>, <<"scoreDisplayMode", Str("metricSavings")>>,
             <<"metricSavings", Obj(<< <<"LCP", Num(150000)>>, <<"FCP", Str("x")>> >>)>>,
             <<"details", MalformedDetails>> >>),
      Obj(<< <<"score", Num(1000)>>, <<"scoreDisplayMode", Str("metricSavings")>> >>),
      Obj(<< <<"score", Null>>, <<"scoreDisplayMode", Str("informative")>> >>),
      Obj(<< <<"score", Num(1000)>>, <<"scoreDisplayMode", Str("informative")>> >>),
      Obj(<< <<"score", Num(1000)>>, <<"scoreDisplayMode", Str("binary")>>,
             <<"displayValue", Str("2.0 s")>>, <<"numericValue", Num(2000000)>> >>),
      Obj(<< <<"score", Num(0)>>, <<"scoreDisplayMode", Str("binary")>>,
             <<"numericValue", Null>> >>),
      Obj(<< <<"score", Num(2000)>>, <<"scoreDisplayMode", Str("numeric")>>,
             <<"displayValue", Str("2.0 s")>> >>),
      Obj(<< <<"score", Str("high")>>, <<"scoreDisplayMode", Str("bogus")>>,
             <<"numericValue", Str("fast")>> >>),
      Obj(<< <<"numericValue", Infinity>>, <<"details", Str("oops")>> >>),
      Obj(<< <<"score", Num(500)>>, <<"scoreDisplayMode", Str("binary")>>,
             <<"numericValue", Num(2000000)>>,
             <<"details", Obj(<< <<"items", Obj(<<>>)>>, <<"headings", Str("h")>> >>)>> >>) }

\* The audits maps of up to MaxAudits entries.
AuditsMaps ==
    UNION { { Obj([k \in 1..n |-> <<AuditIds[k], f[k]>>]) : f \in [1..n -> RawAudits] } :
            n \in { m \in 0..MaxAudits : m <= Len(AuditIds) } }

\* categories.performance: null, without a score, with score null, with one.
PerformanceCategories ==
    { Null, Obj(<<>>), Obj(<< <<"score", Null>> >>), Obj(<< <<"score", Num(900)>> >>) }

\* The entries of categories besides performance.
OptionalCategories ==
    { <<>>,
      << <<"accessibility", Null>> >>,
      << <<"accessibility", Obj(<<>>)>> >>,
      << <<"accessibility", Obj(<< <<"score", Null>> >>)>> >>,
      << <<"accessibility", Obj(<< <<"score", Num(0)>> >>)>> >>,
      << <<"accessibility", Obj(<< <<"score", Num(850)>> >>)>>,
         <<"seo", Obj(<< <<"score", Num(0)>> >>)>> >>,
      << <<"best-practices", Obj(<<>>)>>, <<"seo", Obj(<< <<"score", Num(1000)>> >>)>> >> }

CategoriesValues ==
    { Obj(<<>>) }
    \cup { Obj(<< <<"performance", pc>> >> \o oc) :
             pc \in PerformanceCategories, oc \in OptionalCategories }

\* data.lighthouseResult of a response.
LighthouseResults ==
    { Undefined, Null, Obj(<<>>) }
    \cup { Obj(<< <<"categories", c>> >>) : c \in CategoriesValues }
    \cup { Obj(<< <<"audits", a>> >>) : a \in AuditsMaps }
    \cup { Obj(<< <<"audits", a>>, <<"categories", c>> >>) :
             a \in AuditsMaps, c \in CategoriesValues }

\* What a call of fn ended with.
Outcome(fn, r) ==
    [fn    |-> fn,
     kind  |-> r.kind,
     value |-> IF r.kind = "returned" THEN r.value ELSE Undefined,
     error |-> IF r.kind = "thrown" THEN r.error ELSE "none"]

InitAudit ==
    /\ RunnerAtRest
    /\ args \in { <<lh, "https://a.c", "mobile">> : lh \in LighthouseResults }
    /\ ret = NotCalled
    /\ warned = <<>>

\* auditExtractor.extractComprehensiveData is applied to the result.
ExtractComprehensiveData ==
    /\ ret = NotCalled
    /\ \E r \in {auditExtractor_extractComprehensiveData(args[1], args[2], args[3])} :
           /\ ret' = Outcome("extractComprehensiveData", r.ret)
           /\ warned' = r.warned
    /\ UNCHANGED args
    /\ UNCHANGED runnerVars

\* runPsi has fetched or read a response holding the result and builds its
\* RunResult from it.
RunPsiResult ==
    /\ ret = NotCalled
    /\ \E r \in {runPsi_result(Obj(<< <<"lighthouseResult", args[1]>> >>),
                               args[2], args[3], 1)} :
           /\ ret' = Outcome("runPsi", r.ret)
           /\ warned' = r.warned
    /\ UNCHANGED args
    /\ UNCHANGED runnerVars

NextAudit ==
    \/ ExtractComprehensiveData
    \/ RunPsiResult

SpecAudit == InitAudit /\ [][NextAudit]_vars

\* ------------------------------------- metrics: median on its own
\* The numbers an array may hold: 1, 2, 2.5 and 10.
MedianValues == {1000, 2000, 2500, 10000}

\* The rearrangements of an array.
Rearrangements(values) ==
    { [i \in 1..Len(values) |-> values[p[i]]] :
        p \in { q \in [1..Len(values) -> 1..Len(values)] :
                  \A i, j \in 1..Len(values) : q[i] = q[j] => i = j } }

\* A non-empty array and a rearrangement of it.
InitMedian ==
    /\ RunnerAtRest
    /\ \E n \in 1..MaxValues : \E values \in [1..n -> MedianValues] :
          \E permuted \in Rearrangements(values) : args = <<values, permuted>>
    /\ ret = NotCalled
    /\ warned = <<>>

\* median is applied to the array and to its rearrangement.
Median ==
    /\ ret = NotCalled
    /\ ret' = Returned(<<median(args[1]), median(args[2])>>)
    /\ args' = <<ValuesAfterMedian(args[1]), ValuesAfterMedian(args[2])>>
    /\ UNCHANGED warned
    /\ UNCHANGED runnerVars

NextMedian == Median

SpecMedian == InitMedian /\ [][NextMedian]_vars

\* ------------------------------- runner: the aggregation on its own
\* What runPsi measured in one run: the score in points, the numerics in
\* thousandths.  The second and the fifth tie on the score; the order of the
\* lcp values is not the order of the scores.
Measurements ==
    { [score |-> 80,  lcp |-> 3000000, fcp |-> 1000000, cls |-> 100, tbt |-> 50000],
      [score |-> 90,  lcp |-> 1000000, fcp |-> 2000000, cls |-> 0,   tbt |-> 300000],
      [score |-> 100, lcp |-> 2000000, fcp |-> 1000000, cls |-> 250, tbt |-> 0],
      [score |-> 85,  lcp |-> 2500000, fcp |-> 3000000, cls |-> 20,  tbt |-> 100000],
      [score |-> 90,  lcp |-> 4000000, fcp |-> 1500000, cls |-> 100, tbt |-> 20000] }

\* The configurations whose work matrix has at most MaxRuns items; a URL
\* may be listed more than once, and the second URL has a "|" in its path.
AggConfigs ==
    { c \in [urls : UNION { [1..n -> { <<"https://", "a", ".", "c">>,
                                      <<"https://", "a", ".", "c", "/", "p", "|", "q">> }] :
                            n \in 1..MaxRuns },
             strategies : StrategyLists,
             runsPerUrl : 1..MaxRuns,
             concurrency : {1}] :
        Len(c.urls) * Len(c.strategies) * c.runsPerUrl <= MaxRuns }

\* Every job of the work matrix has resolved; args[1] is allResults.
InitAggregate ==
    /\ cfg \in AggConfigs
    /\ process = [argv |-> <<"node", "dist/cli.js">>, NODE_ENV |-> "production"]
    /\ cache = [f \in Filenames |-> NoFile]
    /\ jobs = [n \in Items |-> QueuedJob]
    /\ queue = [n \in Items |-> n]
    /\ activeCount = 0
    /\ completed = 0
    /\ progressCalls = <<>>
    /\ batch = [status |-> "pending", error |-> Pending, job |-> 0, medians |-> <<>>]
    /\ fsLog = [filenames |-> 0, reads |-> 0, writes |-> 0,
                readWarnings |-> 0, writeWarnings |-> 0]
    /\ \E m \in [Items -> Measurements] :
          args = << [n \in Items |->
                       ResolvedRun(JobUrl(n), JobStrategy(n), JobRun(n), m[n].score,
                                   m[n].lcp, m[n].fcp, m[n].cls, m[n].tbt, n)] >>
    /\ ret = NotCalled
    /\ warned = <<>>

\* The code of executeRuns after `await Promise.all(jobs)`.
AggregateRuns ==
    /\ ret = NotCalled
    /\ ret' = Returned(Aggregate(args[1]))
    /\ UNCHANGED <<args, warned>>
    /\ UNCHANGED runnerVars

NextAggregate == AggregateRuns

SpecAggregate == InitAggregate /\ [][NextAggregate]_vars

\* ------------------------------------------- gptService: callOpenAI
\* summary.trim(), on the message contents explored.
Trim(s) == IF s = "   " THEN "" ELSE IF s = " ok\n" THEN "ok" ELSE s

\* extractSummary(resp): the assistant message, undefined when the response
\* has another shape, a TypeError when reading first.message throws.
extractSummary(resp) ==
    IF TypeOf(resp) # "object" \/ resp = Null \/ ~HasKey(resp, "choices") THEN Undefined
    ELSE IF Get(resp, "choices").t # "array" \/ Len(Get(resp, "choices").a) = 0
         THEN Undefined
    ELSE TheOnly({ IF content.t = "TypeError" THEN TypeError
                   ELSE IF TypeOf(content) = "string" THEN content ELSE Undefined :
                   content \in {OptGet(Get(Get(resp, "choices").a[1], "message"),
                                       "content")} })

\* What fetch settles with: a rejection, or a Response with its ok flag and
\* status, whether text() rejects, and what json() settles with.
Response(ok, status, textFails, json) ==
    [kind |-> "response", ok |-> ok, status |-> status, textFails |-> textFails,
     json |-> json]

\* What resp.json() settles with: the parsed body, or a SyntaxError.
JsonThrows == [kind |-> "thrown", error |-> "SyntaxError"]

\* callOpenAI(prompt), given what fetch settles with.
callOpenAI(fetched) ==
    IF fetched.kind = "rejects" THEN Threw("ApiError")
    ELSE IF ~fetched.ok THEN Threw("ApiError")
    ELSE IF fetched.json.kind = "thrown" THEN Threw(fetched.json.error)
    ELSE TheOnly({ IF summary.t = "TypeError" THEN Threw("TypeError")
                   ELSE IF Falsy(summary) THEN Threw("ApiError")
                   ELSE Returned(Str(Trim(summary.s))) :
                   summary \in {extractSummary(fetched.json.value)} })

\* Values of choices[0].message.content.
Contents ==
    { Num(123000), Null, Obj(<<>>), Arr(<<>>),
      Str(""), Str("   "), Str(" ok\n"), Str("summary") }

\* Values of choices[0], with the values of its message.
Choices ==
    { Null, Num(5000), Str("choice"), Obj(<<>>) }
    \cup { Obj(<< <<"message", m>> >>) :
             m \in { Null, Str("hello"), Obj(<<>>) }
                   \cup { Obj(<< <<"content", c>> >>) : c \in Contents }
                   \cup { Obj(<< <<"role", Str("assistant")>>, <<"content", c>> >>) :
                            c \in Contents } }

\* Bodies the API may answer with.
Bodies ==
    { Null, Num(1000), Str("ok"), Arr(<<>>), Obj(<<>>),
      Obj(<< <<"unexpected", Str("shape")>> >>),
      Obj(<< <<"choices", Null>> >>),
      Obj(<< <<"choices", Str("none")>> >>),
      Obj(<< <<"choices", Obj(<<>>)>> >>),
      Obj(<< <<"choices", Arr(<<>>)>> >>) }
    \cup { Obj(<< <<"choices", Arr(<<c>>)>> >>) : c \in Choices }
    \cup { Obj(<< <<"id", Str("cmpl")>>,
                  <<"choices", Arr(<<c, Obj(<< <<"message", Obj(<< <<"content",
                                  Str("second")>> >>)>> >>)>>)>> >>) : c \in Choices }

FetchOutcomes ==
    { [kind |-> "rejects"] }
    \cup { Response(FALSE, status, textFails, JsonThrows) :
             status \in {429, 500}, textFails \in BOOLEAN }
    \cup { Response(TRUE, 200, FALSE, JsonThrows) }
    \cup { Response(TRUE, 200, FALSE, Returned(b)) : b \in Bodies }

\* A summary is asked for; args[1] is what fetch will settle with.
InitSummary ==
    /\ RunnerAtRest
    /\ args \in { <<f>> : f \in FetchOutcomes }
    /\ ret = NotCalled
    /\ warned = <<>>

\* generateComprehensiveReportSummary: callOpenAI settles.
CallOpenAI ==
    /\ ret = NotCalled
    /\ ret' = callOpenAI(args[1])
    /\ UNCHANGED <<args, warned>>
    /\ UNCHANGED runnerVars

NextSummary == CallOpenAI

SpecSummary == InitSummary /\ [][NextSummary]_vars

\* =============================================================== claims
Started(i) == jobs[i].st # "queued"
Settled(i) == jobs[i].st \in {"done", "failed"}
InFlight == { i \in Items : jobs[i].st \in {"fetching", "backoff"} }

\* C1: at every moment the number of runPsi jobs started and not yet
\* settled, jobs waiting in retry backoff included, is at most the
\* configured concurrency.
C1_InFlightAtMostConcurrency ==
    /\ Cardinality(InFlight) <= cfg.concurrency
    /\ activeCount = Cardinality(InFlight)

\* The limiter is full, one of the jobs holding a slot is in backoff, and a
\* job waits in the queue.
C1_Witness ==
    /\ Cardinality(InFlight) = cfg.concurrency
    /\ \E i \in InFlight : jobs[i].st = "backoff"
    /\ queue # <<>>

\* The calls made so far: one per item done, numbered 1, 2, 3, ...
C2_ProgressState ==
    /\ Len(progressCalls) = Cardinality({ i \in Items : jobs[i].st = "done" })
    /\ \A k \in 1..Len(progressCalls) :
          /\ progressCalls[k].completed = k
          /\ progressCalls[k].completed <= progressCalls[k].total
          /\ progressCalls[k].total =
                Len(cfg.urls) * Len(cfg.strategies) * cfg.runsPerUrl
          /\ jobs[progressCalls[k].job].st = "done"
          /\ \A l \in 1..Len(progressCalls) :
                progressCalls[l].job = progressCalls[k].job => l = k
    /\ (batch.status = "resolved" =>
          /\ Len(progressCalls) = Total
          /\ progressCalls[Total].completed = Total)

\* A step appends a call exactly when it completes an item, and the call
\* is for that item.
C2_ProgressStep ==
    /\ \A i \in Items :
          (jobs[i].st # "done" /\ jobs'[i].st = "done") =>
             progressCalls' = Append(progressCalls,
                 [completed |-> Len(progressCalls) + 1, total |-> Total, job |-> i])
    /\ (progressCalls' # progressCalls =>
          \E i \in Items : jobs[i].st # "done" /\ jobs'[i].st = "done")

\* C2: onProgress is called exactly once per item whose fetch and parse
\* succeeded, at the moment it completes, with completed = 1, 2, 3, ... and
\* total = |urls| * |strategies| * runsPerUrl; the count never exceeds
\* total and the last call of a batch in which all succeed carries total.
C2_ProgressOncePerCompletion == [](C2_ProgressState) /\ [][C2_ProgressStep]_vars

\* Two items completed in the reverse of their submission order.
C2_Witness ==
    /\ Len(progressCalls) = 2
    /\ progressCalls[1].job = 2
    /\ progressCalls[2].job = 1
    /\ batch.status = "resolved"

\* C3: if any work item fails, executeRuns rejects with the error of the
\* item that failed first and hands out no medians; it resolves only when
\* every item succeeded.
C3_FailureRejectsBatch ==
    /\ ((\E i \in Items : jobs[i].st = "failed") =>
          /\ batch.status = "rejected"
          /\ batch.medians = <<>>
          /\ batch.job \in Items
          /\ jobs[batch.job].st = "failed"
          /\ batch.error = jobs[batch.job].result
          /\ batch.error.kind \in {"ApiError", "ValidationError", "TypeError"})
    /\ (batch.status = "resolved" =>
          /\ \A i \in Items : jobs[i].st = "done"
          /\ Len(batch.medians) >= 1)
    /\ (batch.status = "pending" => batch.medians = <<>>)

\* One item succeeded, another failed with a ValidationError, and the batch
\* is rejected with that error.
C3_Witness ==
    /\ batch.status = "rejected"
    /\ batch.error.kind = "ValidationError"
    /\ \E i \in Items : jobs[i].st = "done"

\* C4 (as claimed): once an item has failed, no item still queued is
\* started.
C4_NoStartAfterFailure ==
    [][ (\E i \in Items : jobs[i].st = "failed") =>
           \A n \in Items : jobs[n].st = "queued" => jobs'[n].st = "queued" ]_vars

\* C5: a runPsi call on the network path makes between 1 and 3 attempts:
\* k attempts when the k-th is the first to succeed, whose payload is the
\* one parsed; exactly 3 when all fail, and then it rejects with an
\* ApiError wrapping the last network error.
C5_AttemptBudget ==
    \A i \in Items :
       /\ jobs[i].calls <= 3
       /\ (jobs[i].source = "network" =>
             /\ jobs[i].calls = jobs[i].attempt + 1
             /\ jobs[i].calls \in 1..3
             /\ jobs[i].result = buildRunResult(jobs[i].data))
       /\ ((Settled(i) /\ jobs[i].source = "none") =>
             /\ jobs[i].calls = 3
             /\ jobs[i].attempt = 3
             /\ jobs[i].lastErr \in NetErrors
             /\ jobs[i].result = Thrown("ApiError", jobs[i].lastErr))
       /\ (jobs[i].result.kind = "ApiError" => jobs[i].calls = 3)

\* One call failed three times and rejected; another succeeded on its third
\* attempt.
C5_Witness ==
    /\ \E i \in Items : jobs[i].result.kind = "ApiError" /\ jobs[i].calls = 3
    /\ \E i \in Items : jobs[i].st = "done" /\ jobs[i].calls = 3

\* A response without lighthouseResult, without audits or without the
\* performance category.
Malformed(data) == ~data.lighthouseResult \/ ~data.audits \/ ~data.performance

\* C6 (as claimed): a malformed response makes runPsi fail with an ApiError,
\* without another attempt.
C6_MalformedIsApiError ==
    \A i \in Items :
       (jobs[i].source = "network" /\ Malformed(jobs[i].data)) =>
          /\ jobs[i].st = "failed"
          /\ jobs[i].calls = jobs[i].attempt + 1
          /\ jobs[i].result.kind = "ApiError"

\* C7 (as claimed): an attempt that fails with a 4xx response is not
\* retried: the call is over, rejected with the error.
C7_NoRetryOfPermanentError ==
    \A i \in Items :
       jobs[i].lastErr = "HTTP400" =>
          /\ jobs[i].st = "failed"
          /\ jobs[i].calls = 1

DevProcess == process.NODE_ENV = "development"
ProdProcess == process = [argv |-> <<"node", "dist/cli.js">>, NODE_ENV |-> "production"]

\* The file holds a report: it is there, can be read, and its text parses.
HoldsReport(file) == file.exists /\ file.readable /\ JsonParse(file.text).ok

\* Every started call: on the network iff the file it saw held no report,
\* and otherwise settled from that report.
C8_CacheState ==
    \A i \in Items :
       Started(i) =>
          /\ (jobs[i].calls > 0 <=> ~HoldsReport(jobs[i].seen))
          /\ (HoldsReport(jobs[i].seen) =>
                /\ Settled(i)
                /\ jobs[i].source = "cache"
                /\ jobs[i].data = JsonParse(jobs[i].seen.text).value
                /\ jobs[i].result = buildRunResult(jobs[i].data))

\* A starting call sees the file as it is now; the file of a key changes
\* only as a fetch for that key succeeds, to the text of the payload.
C8_CacheStep ==
    /\ \A i \in Items :
          (jobs[i].st = "queued" /\ jobs'[i].st # "queued") =>
             /\ jobs'[i].seen = cache[JobFile(i)]
             /\ jobs'[i].calls = IF HoldsReport(cache[JobFile(i)]) THEN 0 ELSE 1
    /\ \A f \in Filenames :
          cache'[f] # cache[f] =>
             \E i \in Items :
                /\ JobFile(i) = f
                /\ jobs[i].st = "fetching"
                /\ jobs'[i].source = "network"
                /\ jobs'[i].attempt = jobs[i].attempt
                /\ cache'[f].exists /\ cache'[f].readable
                /\ JsonParse(cache'[f].text) = [ok |-> TRUE, value |-> jobs'[i].data]
    /\ \A i \in Items : jobs'[i].attempt # jobs[i].attempt => cache' = cache

\* C8: in dev mode a runPsi call for key K goes to the network if and only
\* if the cache holds no report for K when the call starts; a call that
\* finds a report makes no network call and its result is the one derived
\* from the cached payload; the cache entry for K changes only when a
\* network fetch for K succeeds, and then holds exactly the fetched payload;
\* a failed attempt leaves the cache as it was.
C8_DevCache ==
    [](DevProcess => C8_CacheState) /\ [][DevProcess => C8_CacheStep]_vars

\* A call found in the cache the report another call of this batch fetched
\* and saved (no file holds that payload at the start).
C8_Witness ==
    \E i, j \in Items :
       /\ i # j
       /\ jobs[j].saved = "written"
       /\ jobs[j].data = Payload(TRUE, FALSE, TRUE, 500)
       /\ jobs[i].read = "hit"
       /\ jobs[i].calls = 0
       /\ jobs[i].data = jobs[j].data

\* Reading the file throws: it is there but unreadable, or its text does
\* not parse.
ReadThrows(file) == file.exists /\ (~file.readable \/ ~JsonParse(file.text).ok)

\* What the call settles with when there is no cache at all: the fetched
\* payload parsed, or the ApiError of the exhausted retries.
NoCacheOutcome(j) ==
    IF j.source = "network" THEN buildRunResult(j.data)
    ELSE Thrown("ApiError", j.lastErr)

\* C9: cache failures never fail a fetch.  A read that throws is logged,
\* counts as a miss and the call goes to the network; a write that throws
\* is logged and the call still settles with the result parsed from the
\* fetched payload; either way the call ends as it would with no cache.
C9_CacheFailuresContained ==
    DevProcess =>
       /\ \A i \in Items :
             /\ ((Started(i) /\ ReadThrows(jobs[i].seen)) =>
                    /\ jobs[i].read = "failed"
                    /\ jobs[i].calls >= 1)
             /\ (jobs[i].saved = "failed" =>
                    /\ Settled(i)
                    /\ jobs[i].source = "network"
                    /\ jobs[i].result = buildRunResult(jobs[i].data))
             /\ ((Settled(i) /\ (jobs[i].read = "failed" \/ jobs[i].saved = "failed")) =>
                    jobs[i].result = NoCacheOutcome(jobs[i]))
       /\ fsLog.readWarnings =
             Cardinality({ i \in Items : Started(i) /\ ReadThrows(jobs[i].seen) })
       /\ fsLog.writeWarnings =
             Cardinality({ i \in Items : jobs[i].saved = "failed" })

\* A call whose cache read threw and whose cache write threw returned a
\* RunResult all the same.
C9_Witness ==
    \E i \in Items :
       /\ jobs[i].read = "failed"
       /\ jobs[i].saved = "failed"
       /\ jobs[i].st = "done"
       /\ fsLog.readWarnings >= 1
       /\ fsLog.writeWarnings >= 1

\* No logService call was made and every started call is on the network.
C10_ProductionState ==
    /\ fsLog.filenames = 0
    /\ fsLog.reads = 0
    /\ fsLog.writes = 0
    /\ \A i \in Items :
          /\ jobs[i].read = "none"
          /\ jobs[i].saved = "none"
          /\ (Started(i) => jobs[i].calls >= 1)

\* C10: in production mode runPsi computes no cache filename, reads no cache
\* file and writes none, whether the fetch succeeds or fails; every call
\* makes at least one network attempt; the cache never changes.
C10_ProductionNoCache ==
    [](ProdProcess => C10_ProductionState) /\ [][ProdProcess => cache' = cache]_vars

\* A production batch in which one call succeeded and one failed, next to
\* a report left in logs/ by an earlier dev run.
C10_Witness ==
    /\ ProdProcess
    /\ \E i \in Items : jobs[i].st = "done"
    /\ \E i \in Items : jobs[i].result.kind = "ApiError"
    /\ cache[JobFile(1)].exists

\* C11: the cache key is injective: two (url, strategy) pairs that differ in
\* url or in strategy never get the same report filename.
C11_FilenameInjective ==
    (ret.kind = "returned" /\ args[1] # args[2]) => ret.value[1] # ret.value[2]

\* ---------------------------------------------- auditExtractor claims
\* v is a finite number.
IsFinite(v) == v.t = "number" /\ v.k = "finite"

\* extractComprehensiveData was applied to args[1] and returned ret.value.
Extracted == ret.kind = "returned" /\ ret.fn = "extractComprehensiveData"

\* The entries of the audits map given, and the places <<bucket, index>> of
\* the result that hold an audit with a given id.
InputEntries == Entries(Get(args[1], "audits"))
Bucket(b) == Get(ret.value, b).a
PlacesOf(id) ==
    { <<b, i>> \in BucketNames \X (1..MaxAudits + 1) :
        i <= Len(Bucket(b)) /\ Get(Bucket(b)[i], "id") = Str(id) }

\* C12: categorizeAudits partitions its input: every entry that is a non-null
\* object is in exactly one bucket, once, under its own key as id; an entry is
\* in no bucket only if its parse threw, and then a warning naming its id was
\* logged; nothing else is in a bucket and nothing else is warned about.
C12_BucketsPartitionInput ==
    Extracted =>
        /\ \A k \in 1..Len(InputEntries) :
              IF IsObject(InputEntries[k][2])
              THEN Cardinality(PlacesOf(InputEntries[k][1])) = 1
              ELSE /\ PlacesOf(InputEntries[k][1]) = {}
                   /\ \E w \in 1..Len(warned) : warned[w] = InputEntries[k][1]
        /\ \A b \in BucketNames : \A i \in 1..Len(Bucket(b)) :
              \E k \in 1..Len(InputEntries) :
                 /\ Get(Bucket(b)[i], "id") = Str(InputEntries[k][1])
                 /\ IsObject(InputEntries[k][2])
        /\ \A w \in 1..Len(warned) :
              \E k \in 1..Len(InputEntries) :
                 warned[w] = InputEntries[k][1] /\ ~IsObject(InputEntries[k][2])

\* An audits map with an entry that parses and one that does not was
\* categorized.
C12_Witness ==
    /\ Extracted
    /\ Len(InputEntries) = 2
    /\ InputEntries[1][2] = Null
    /\ IsObject(InputEntries[2][2])
    /\ warned = <<InputEntries[1][1]>>
    /\ PlacesOf(InputEntries[2][1]) # {}

\* The bucket the four rules give an audit, first match first.
RuleBucket(audit) ==
    LET score == Get(audit, "score")
        mode == Get(audit, "scoreDisplayMode").s
    IN  CASE mode = "metricSavings" /\ score # Null /\ LessThan(score, 1000) -> "opportunities"
          [] OTHER ->
             CASE mode = "informative" -> "diagnostics"
               [] OTHER ->
                  CASE score = Num(1000) \/ score = Null -> "passedAudits"
                    [] OTHER -> "diagnostics"

\* C13: every parsed audit is in the bucket of the first matching rule:
\* metricSavings with a non-null score below 1 is an opportunity, informative
\* a diagnostic whatever its score, score 1 or null passed, the rest
\* diagnostics.
C13_BucketByFirstRule ==
    Extracted =>
        \A b \in BucketNames : \A i \in 1..Len(Bucket(b)) : RuleBucket(Bucket(b)[i]) = b

\* An informative audit of score 1 went to diagnostics next to an opportunity.
C13_Witness ==
    /\ Extracted
    /\ Len(Bucket("opportunities")) = 1
    /\ \E i \in 1..Len(Bucket("diagnostics")) :
          /\ Get(Bucket("diagnostics")[i], "scoreDisplayMode") = Str("informative")
          /\ Get(Bucket("diagnostics")[i], "score") = Num(1000)

\* The audits map without the entries whose parse fails.
ParsingEntries == SelectSeq(InputEntries, LAMBDA e : IsObject(e[2]))

\* C14: once the top-level check has passed, no content of an audit entry
\* makes extractComprehensiveData throw; a failing entry is dropped and the
\* other entries are categorized as if it were not in the map.
C14_PerItemContainment ==
    (ret.kind # "none" /\ ret.fn = "extractComprehensiveData"
       /\ ~Falsy(OptGet(args[1], "audits"))
       /\ ~Falsy(OptGet(OptGet(args[1], "categories"), "performance")))
    => /\ ret.kind = "returned"
       /\ \A b \in BucketNames :
             Bucket(b) = categorizeAudits(Obj(ParsingEntries))[b]

\* A map holding a null entry and an audit whose details are malformed
\* throughout was extracted.
C14_Witness ==
    /\ Extracted
    /\ Len(InputEntries) = 2
    /\ InputEntries[1][2] = Null
    /\ Get(InputEntries[2][2], "details") = MalformedDetails
    /\ Len(Bucket("opportunities")) = 1

\* extractComprehensiveData was applied to args[1] and returned or threw.
ExtractEnded == ret.kind # "none" /\ ret.fn = "extractComprehensiveData"
ThrewValidationError == ret.kind = "thrown" /\ ret.error = "ValidationError"

\* What the top-level object lacks: the audits map, the performance
\* category, that category's score field.
MissingAudits == Nullish(OptGet(args[1], "audits"))
MissingPerformance == Nullish(OptGet(OptGet(args[1], "categories"), "performance"))
MissingPerformanceScore ==
    OptGet(OptGet(OptGet(args[1], "categories"), "performance"), "score") = Undefined

\* C15, as stated: extractComprehensiveData fails with ValidationError when
\* the audits map or the performance-category score is missing, and in no
\* other case: with both it returns.
C15_ValidationErrorIffScoreMissing ==
    ExtractEnded =>
        IF MissingAudits \/ MissingPerformanceScore
        THEN ThrewValidationError
        ELSE ret.kind = "returned"

\* C15, amended: extractComprehensiveData fails with ValidationError when the
\* audits map or the performance category is missing, and in no other case;
\* a performance category without a score, or with score null, does not
\* fail: the score is reported as 0.
C15_ValidationErrorIffCategoryMissing ==
    ExtractEnded =>
        IF MissingAudits \/ MissingPerformance
        THEN ThrewValidationError
        ELSE /\ ret.kind = "returned"
             /\ (Nullish(Get(Get(Get(args[1], "categories"), "performance"), "score"))
                   => Get(ret.value, "performanceScore") = Num(0))

\* A result whose performance category has no score field was extracted.
C15_Witness ==
    /\ Extracted
    /\ ~MissingAudits
    /\ Get(Get(args[1], "categories"), "performance") = Obj(<<>>)
    /\ Get(ret.value, "performanceScore") = Num(0)

\* The four metrics of a RunResult and the audits they are read from.
RunMetrics ==
    { <<"lcp", "largest-contentful-paint">>, <<"fcp", "first-contentful-paint">>,
      <<"cls", "cumulative-layout-shift">>, <<"tbt", "total-blocking-time">> }

\* Field f of the audit named id in the audits map given, undefined when
\* the audit or the field is not there.
AuditField(id, f) == OptGet(Get(Get(args[1], "audits"), id), f)

\* C16: a performance category with score null gives RunResult.score = 0 and
\* auditData.performanceScore = 0 without an error; for lcp, fcp, cls and tbt
\* a missing displayValue gives display "n/a" and a missing numericValue
\* numeric 0, each field on its own.
C16_AbsenceSentinels ==
    (ret.kind # "none" /\ ret.fn = "runPsi") =>
        /\ (~MissingAudits /\ ~MissingPerformance
              /\ Get(Get(Get(args[1], "categories"), "performance"), "score") = Null)
           => /\ ret.kind = "returned"
              /\ Get(ret.value, "score") = Num(0)
              /\ Get(Get(ret.value, "auditData"), "performanceScore") = Num(0)
        /\ ret.kind = "returned" =>
              \A m \in RunMetrics :
                 /\ Get(Get(ret.value, m[1]), "display") =
                       (IF Nullish(AuditField(m[2], "displayValue"))
                        THEN Str("n/a") ELSE AuditField(m[2], "displayValue"))
                 /\ Get(Get(ret.value, m[1]), "numeric") =
                       (IF Nullish(AuditField(m[2], "numericValue"))
                        THEN Num(0) ELSE AuditField(m[2], "numericValue"))

\* runPsi built a RunResult from a null performance score, an lcp audit
\* with a display value and no numeric value, and a cls audit with a
\* numeric value and no display value.
C16_Witness ==
    /\ ret.kind = "returned" /\ ret.fn = "runPsi"
    /\ Get(Get(Get(args[1], "categories"), "performance"), "score") = Null
    /\ Get(ret.value, "score") = Num(0)
    /\ Get(ret.value, "lcp") = Obj(<< <<"display", Str("2.0 s")>>, <<"numeric", Num(0)>> >>)
    /\ Get(ret.value, "cls") =
          Obj(<< <<"display", Str("n/a")>>, <<"numeric", Num(2000000)>> >>)

\* C17: every audit in a bucket has a score that is null or a number in
\* [0, 1] and one of the seven scoreDisplayModes, whatever the raw audit
\* object held.
C17_AuditEntityInvariant ==
    Extracted =>
        \A b \in BucketNames : \A i \in 1..Len(Bucket(b)) :
            LET score == Get(Bucket(b)[i], "score")
                mode == Get(Bucket(b)[i], "scoreDisplayMode")
            IN  /\ \/ score = Null
                   \/ IsFinite(score) /\ score.n >= 0 /\ score.n <= 1000
                /\ mode.t = "string"
                /\ mode.s \in {"numeric", "binary", "manual", "informative",
                               "notApplicable", "error", "metricSavings"}

\* The optional category scores of the result and the categories they are
\* computed from.
OptionalScores ==
    { <<"accessibilityScore", "accessibility">>, <<"bestPracticesScore", "best-practices">>,
      <<"seoScore", "seo">> }

\* C18: an optional category score is round(score * 100) when the category
\* exists and has a numeric score (0 for a score of 0), and undefined in
\* every other case: category missing, score null, score field missing.
C18_OptionalCategoryScore ==
    Extracted =>
        \A c \in OptionalScores :
            LET score == OptGet(Get(Get(args[1], "categories"), c[2]), "score")
            IN  Get(ret.value, c[1]) =
                   (IF IsFinite(score) THEN Num(1000 * ((score.n + 5) \div 10))
                    ELSE Undefined)

\* The metrics of ComprehensivePsiData and the audits they are read from.
CoreMetrics ==
    RunMetrics \cup { <<"si", "speed-index">>, <<"tti", "interactive">> }

\* C19: each core metric is the audit's numericValue when that is present
\* and finite, and 0 otherwise (audit or value missing, null, non-finite or
\* not a number); the extractor never throws.
C19_MetricTotalWithDefault ==
    /\ (ExtractEnded /\ ~MissingAudits /\ ~MissingPerformance) => ret.kind = "returned"
    /\ Extracted =>
          \A m \in CoreMetrics :
              Get(Get(ret.value, "metrics"), m[1]) =
                 (IF IsFinite(AuditField(m[2], "numericValue"))
                  THEN AuditField(m[2], "numericValue") ELSE Num(0))

\* ------------------------------------------------------ median claims
\* The k-th smallest number of an array, counted from 1.
KthSmallest(values, k) ==
    CHOOSE x \in { values[i] : i \in 1..Len(values) } :
        /\ Cardinality({ i \in 1..Len(values) : values[i] < x }) < k
        /\ Cardinality({ i \in 1..Len(values) : values[i] <= x }) >= k

\* The middle element of the ascending sort for an odd length, the mean of
\* the two central ones for an even length.
MiddleOf(values) ==
    LET n == Len(values)
    IN  IF n % 2 = 1 THEN KthSmallest(values, (n \div 2) + 1)
        ELSE (KthSmallest(values, n \div 2) + KthSmallest(values, (n \div 2) + 1)) \div 2

C20_MedianState ==
    ret.kind = "returned" =>
        /\ ret.value[1] = MiddleOf(args[1])
        /\ ret.value[2] = ret.value[1]

C20_MedianStep == args' = args

\* C20: for a non-empty array and every permutation of it median returns the
\* same value, the middle element of the ascending sort for an odd length
\* and the mean of the two central elements for an even length, and leaves
\* the array it is given unmodified.
C20_MedianOfSorted == [](C20_MedianState) /\ [][C20_MedianStep]_vars

\* median was applied to a two-element array in descending order and to its
\* ascending rearrangement, and to a three-element array out of order.
C20_Witness ==
    /\ ret.kind = "returned"
    /\ \/ /\ args = << <<10000, 2000>>, <<2000, 10000>> >>
          /\ ret.value = <<6000, 6000>>
       \/ /\ args = << <<10000, 1000, 2500>>, <<2500, 10000, 1000>> >>
          /\ ret.value = <<2500, 2500>>

\* ------------------------------------------------- aggregation claims
\* The code after Promise.all was applied to args[1] and returned ret.value.
Aggregated == ret.kind = "returned" /\ args # <<>> /\ cfg \in AggConfigs

\* The (url, strategy) pairs among the runs.
PairsOf(runs) == { <<runs[n].url, runs[n].strategy>> : n \in 1..Len(runs) }

\* The places <<k, i>> at which run is found in the individualRuns of results.
PlacesOfRun(results, run) ==
    { <<k, i>> \in (1..Len(results)) \X (1..MaxRuns + 1) :
        i <= Len(results[k].individualRuns) /\ results[k].individualRuns[i] = run }

\* One result per pair, every run in one result.
GroupedByPair(results, runs) ==
    /\ Len(results) = Cardinality(PairsOf(runs))
    /\ \A n \in 1..Len(runs) : Cardinality(PlacesOfRun(results, runs[n])) = 1
    /\ \A k \in 1..Len(results) : \A i, j \in 1..Len(results[k].individualRuns) :
          /\ results[k].individualRuns[i].url = results[k].individualRuns[j].url
          /\ results[k].individualRuns[i].strategy = results[k].individualRuns[j].strategy

\* The url and strategy of a result are those of its runs.
LabelledByPair(results) ==
    \A k \in 1..Len(results) : \A i \in 1..Len(results[k].individualRuns) :
       /\ results[k].url = results[k].individualRuns[i].url
       /\ results[k].strategy = <<results[k].individualRuns[i].strategy>>

\* C21: executeRuns returns exactly one MedianResult per distinct
\* (url, strategy) pair among the completed runs, each run is in the
\* individualRuns of exactly one result, and each result's url and strategy
\* are those of every run in its individualRuns, for every url string, one
\* with a "|" included.
C21_GroupsByExactPair ==
    Aggregated => GroupedByPair(ret.value, args[1]) /\ LabelledByPair(ret.value)

\* Run j of runs comes before run i once runs are ordered by score
\* ascending, ties keeping their original order.
BeforeByScore(runs, j, i) ==
    \/ runs[j].score < runs[i].score
    \/ runs[j].score = runs[i].score /\ j < i

\* The index in runs of the run that is at index floor(n/2), counted from 0,
\* of that ordering.
RepresentativeOf(runs) ==
    CHOOSE i \in 1..Len(runs) :
        Cardinality({ j \in 1..Len(runs) : BeforeByScore(runs, j, i) }) = Len(runs) \div 2

\* C22: the auditData of a MedianResult is the auditData of the run of its
\* group that is at index floor(n/2) once the group's runs are ordered by
\* score ascending, ties keeping their original order; for an odd n that
\* run's score is the group's medianScore.
C22_RepresentativeRun ==
    Aggregated =>
        \A k \in 1..Len(ret.value) :
           LET runs == ret.value[k].individualRuns
           IN  /\ ret.value[k].auditData = runs[RepresentativeOf(runs)].auditData
               /\ (Len(runs) % 2 = 1 =>
                     runs[RepresentativeOf(runs)].score = ret.value[k].medianScore)

\* A group of three runs with the scores 100, 80, 90 is represented by its
\* third run, and a group of the scores 90, 80, 90 by its first.
C22_Witness ==
    /\ Aggregated
    /\ \E k \in 1..Len(ret.value) :
          LET runs == ret.value[k].individualRuns
          IN  /\ Len(runs) = 3
              /\ \/ /\ <<runs[1].score, runs[2].score, runs[3].score>> = <<100, 80, 90>>
                    /\ ret.value[k].medianScore = 90
                    /\ ret.value[k].auditData = runs[3].auditData
                 \/ /\ <<runs[1].score, runs[2].score, runs[3].score>> = <<90, 80, 90>>
                    /\ runs[1].lcp # runs[3].lcp
                    /\ ret.value[k].auditData = runs[1].auditData

\* The values of one field of the runs, in thousandths.
FieldSeries(runs, field) ==
    [i \in 1..Len(runs) |->
       IF field = "score" THEN 1000 * runs[i].score ELSE runs[i][field]]

\* m is x, given in thousandths, rounded to the nearest integer, a fraction
\* of .5 going up.
IsRounded(m, x) == 1000 * m - 500 <= x /\ x < 1000 * m + 500

\* C23: for a group whose run scores are integers in [0,100], medianScore is
\* an integer in [0,100] between the group's least and greatest score, equal
\* to the median of the scores rounded to the nearest integer (.5 up), and
\* medianLcp, medianFcp, medianCls and medianTbt are the unrounded medians
\* of their own series.
C23_MedianFields ==
    Aggregated =>
        \A k \in 1..Len(ret.value) :
           LET result == ret.value[k]
               runs == result.individualRuns
           IN  (\A i \in 1..Len(runs) : runs[i].score \in 0..100) =>
                 /\ result.medianScore \in 0..100
                 /\ \E i, j \in 1..Len(runs) :
                       /\ runs[i].score <= result.medianScore
                       /\ result.medianScore <= runs[j].score
                 /\ IsRounded(result.medianScore, MiddleOf(FieldSeries(runs, "score")))
                 /\ result.medianLcp = MiddleOf(FieldSeries(runs, "lcp"))
                 /\ result.medianFcp = MiddleOf(FieldSeries(runs, "fcp"))
                 /\ result.medianCls = MiddleOf(FieldSeries(runs, "cls"))
                 /\ result.medianTbt = MiddleOf(FieldSeries(runs, "tbt"))

\* A group of two runs scoring 80 and 85 has medianScore 83, the median 82.5
\* rounded up, and the fractional medianCls 0.06 of 0.1 and 0.02.
C23_Witness ==
    /\ Aggregated
    /\ \E k \in 1..Len(ret.value) :
          LET runs == ret.value[k].individualRuns
          IN  /\ Len(runs) = 2
              /\ runs[1].score = 85 /\ runs[2].score = 80
              /\ ret.value[k].medianScore = 83
              /\ ret.value[k].medianCls = 60
              /\ ret.value[k].medianLcp = 2750000

\* ------------------------------------------- aggregation in the batch
\* The RunResult the n-th job pushed resolved with.
ResultOfJob(n) ==
    ResolvedRun(JobUrl(n), JobStrategy(n), JobRun(n), jobs[n].result.score, 0, 0, 0, 0, n)

\* The jobs in the order they settled in.
CompletionOrder == [k \in 1..Len(progressCalls) |-> progressCalls[k].job]

RECURSIVE SumOfRuns(_, _)
\* The sum of the runs fields of results k.. .
SumOfRuns(results, k) ==
    IF k > Len(results) THEN 0 ELSE results[k].runs + SumOfRuns(results, k + 1)

\* No (url, strategy) pair is configured twice.
PairsDistinct ==
    /\ \A a, b \in 1..Len(cfg.urls) : cfg.urls[a] = cfg.urls[b] => a = b
    /\ \A a, b \in 1..Len(cfg.strategies) : cfg.strategies[a] = cfg.strategies[b] => a = b

\* C28: whenever executeRuns resolves, every MedianResult has
\* runs = length of its individualRuns >= 1, the runs add up to
\* |urls| * |strategies| * runsPerUrl, which is also the number of onProgress
\* calls made, and with pairwise distinct (url, strategy) pairs each result
\* has runs = runsPerUrl.
C28_RunCountConservation ==
    batch.status = "resolved" =>
        /\ \A k \in 1..Len(batch.medians) :
              /\ batch.medians[k].runs = Len(batch.medians[k].individualRuns)
              /\ batch.medians[k].runs >= 1
              /\ PairsDistinct => batch.medians[k].runs = cfg.runsPerUrl
        /\ SumOfRuns(batch.medians, 1) =
              Len(cfg.urls) * Len(cfg.strategies) * cfg.runsPerUrl
        /\ SumOfRuns(batch.medians, 1) = Len(progressCalls)

\* A batch of two runs of one pair, and one of two pairs of one run each,
\* resolved.
C28_Witness ==
    /\ batch.status = "resolved"
    /\ Len(progressCalls) = 2
    /\ \/ cfg.runsPerUrl = 2 /\ Len(batch.medians) = 1 /\ batch.medians[1].runs = 2
       \/ cfg.runsPerUrl = 1 /\ Len(batch.medians) = 2 /\ batch.medians[2].runs = 1

\* --------------------------------------------------- gptService claims
\* callOpenAI was called with args[1] as the outcome of fetch and settled.
Summarized ==
    ret.kind \in {"returned", "thrown"} /\ Len(args) = 1 /\ args[1] \in FetchOutcomes

\* C25: every call to the summarization API either returns a non-empty
\* string or rejects with ApiError: a network failure, a non-OK status, an
\* unparseable JSON body, missing or empty choices, a null first choice and
\* non-string or empty content are never surfaced as another error type or
\* as an empty result.
C25_SummaryOrApiError ==
    Summarized =>
        \/ ret.kind = "thrown" /\ ret.error = "ApiError"
        \/ ret.kind = "returned" /\ ret.value.t = "string" /\ ret.value.s # ""

\* ------------------------------------------------ categorization again
\* An audit of mode metricSavings whose score is exactly 1.
ResolvedOpportunity(rawAudit) ==
    /\ rawAudit.t = "object"
    /\ Get(rawAudit, "scoreDisplayMode") = Str("metricSavings")
    /\ Get(rawAudit, "score") = Num(1000)

\* The buckets in which the audits of mode metricSavings and score 1 are.
BucketsOfResolved ==
    { p[1] : p \in UNION { PlacesOf(InputEntries[k][1]) :
                             k \in { n \in 1..Len(InputEntries) :
                                       ResolvedOpportunity(InputEntries[n][2]) } } }

\* C26 as stated: an audit of mode metricSavings and score exactly 1 is put
\* in diagnostics, and in neither opportunities nor passedAudits.
C26_ResolvedOpportunityInDiagnostics ==
    Extracted => BucketsOfResolved \subseteq {"diagnostics"}

\* C26, amended: an audit of mode metricSavings and score exactly 1 is put in
\* passedAudits, by the test score === 1 of the third branch, and in neither
\* opportunities nor diagnostics.
C26_ResolvedOpportunityInPassed ==
    Extracted => BucketsOfResolved \subseteq {"passedAudits"}

\* An audits map with an audit of mode metricSavings and score 1 was
\* categorized, and the audit is in a bucket.
C26_Witness ==
    /\ Extracted
    /\ Len(InputEntries) >= 1
    /\ ResolvedOpportunity(InputEntries[1][2])
    /\ BucketsOfResolved # {}
    /\ Len(Bucket("passedAudits")) >= 1

\* ---------------------------------------------------- retry loop again
C27_BackoffState ==
    \A i \in Items :
       /\ jobs[i].st = "backoff" =>
             /\ jobs[i].attempt \in {1, 2}
             /\ jobs[i].waitMs = jobs[i].attempt * 500
             /\ jobs[i].calls = jobs[i].attempt
       /\ jobs[i].st # "backoff" => jobs[i].waitMs = 0
       /\ jobs[i].attempt = MAX_API_RETRIES => jobs[i].st = "failed"

C27_BackoffStep ==
    \A i \in Items :
       \* attempt k+1 is issued only when the timer set after attempt k fires
       /\ (jobs[i].calls >= 1 /\ jobs'[i].calls # jobs[i].calls) =>
             /\ jobs[i].st = "backoff"
             /\ jobs'[i].calls = jobs[i].attempt + 1
             /\ jobs'[i].st = "fetching"
       \* a failure of attempt k starts the wait of k * 500 ms, the third none
       /\ (jobs'[i].attempt # jobs[i].attempt) =>
             /\ jobs[i].st = "fetching"
             /\ jobs'[i].attempt = jobs[i].attempt + 1
             /\ IF jobs'[i].attempt < 3
                THEN jobs'[i].st = "backoff" /\ jobs'[i].waitMs = jobs'[i].attempt * 500
                ELSE jobs'[i].st = "failed" /\ jobs'[i].waitMs = 0
                     /\ jobs'[i].result.kind = "ApiError"

RunsOfKey(f) == { i \in Items : JobFile(i) = f }
NetworkRunsOfKey(f) == { i \in RunsOfKey(f) : jobs[i].calls > 0 }

\* The batch started with no file for key f: no file is ever removed, and
\* the first call for f saw the file as it was at the start.
StartedWithoutEntry(f) ==
    IF \E i \in RunsOfKey(f) : Started(i)
    THEN \E i \in RunsOfKey(f) : Started(i) /\ jobs[i].seen = NoFile
    ELSE cache[f] = NoFile

\* No axios.get of the batch has failed; no saveRawReport has.
NoFetchFailed == \A i \in Items : jobs[i].attempt = 0
NoSaveFailed == \A i \in Items : jobs[i].saved # "failed"

Min(a, b) == IF a <= b THEN a ELSE b

\* For every key without an entry at the start: between 1 and
\* min(R, concurrency) of its R calls go to the network, one when
\* concurrency = 1.
NetworkCallsBounded ==
    \A f \in Filenames :
       (RunsOfKey(f) # {} /\ StartedWithoutEntry(f)) =>
          /\ Cardinality(NetworkRunsOfKey(f)) <=
                Min(Cardinality(RunsOfKey(f)), cfg.concurrency)
          /\ (\E i \in RunsOfKey(f) : Started(i)) =>
                Cardinality(NetworkRunsOfKey(f)) >= 1
          /\ (cfg.concurrency = 1 /\ \A i \in RunsOfKey(f) : Started(i)) =>
                Cardinality(NetworkRunsOfKey(f)) = 1

C30_Budget ==
    /\ \A i \in Items :
          /\ jobs[i].calls <= 3
          /\ jobs[i].attempt <= 3
          /\ jobs[i].st = "backoff" => jobs[i].attempt <= 2
    /\ batch.status = "resolved" => \A i \in Items : jobs[i].st = "done"
    /\ (\E i \in Items : jobs[i].st = "failed") => batch.status = "rejected"

\* C30: if every network call and every backoff timer eventually settles,
\* each runPsi call settles after at most 3 network attempts and 2 backoff
\* waits, and executeRuns eventually settles, resolved when all items
\* succeed and rejected when some item fails.
C30_Termination ==
    /\ [](C30_Budget)
    /\ <>(\A i \in Items : Settled(i))
    /\ <>(batch.status \in {"resolved", "rejected"})

\* A batch resolved after one of its calls took three attempts, and a batch
\* rejected after a call failed three times.
C30_Witness ==
    \/ /\ batch.status = "resolved"
       /\ \E i \in Items : jobs[i].calls = 3 /\ jobs[i].attempt = 2
    \/ /\ batch.status = "rejected"
       /\ \A i \in Items : Settled(i)
       /\ \E i \in Items : jobs[i].calls = 3 /\ jobs[i].attempt = 3

====
